---- MODULE Spec2Model ----
(***************************************************************************)
(* Content-lifecycle pipeline of the CDN API: chunked-upload reassembly    *)
(* (FileService), the version store (VersioningService) and the webhook    *)
(* delivery subsystem (WebhookService).  Every asynchronous handler is cut *)
(* at its await points; one action is one run of the handler between two   *)
(* suspension points of the single-threaded event loop.                    *)
(***************************************************************************)
EXTENDS Integers, Sequences, FiniteSets, TLC

(***************************************************************************)
(* Bounds                                                                  *)
(***************************************************************************)
\* Number of uploadChunk/finalize calls, and of version-store calls, made.
MaxChunkReqs == 3
MaxVerReqs == 3
\* Number of delivery jobs the queue ever holds.
MaxJobs == 2
\* Number of getPresetVariant calls and worker runs made, number of
\* 'createVariant' jobs waiting per variant, number of uploads and of
\* deletes answered.
MaxImgReqs == 2
MaxImageJobs == 1
MaxUploads == 2
\* Number of saveFile calls made.
MaxSaves == 3
\* Largest byte offset named in a Range header.
MaxOffset == 3
\* Number of version-service calls made on one deployment.
MaxFeatureCalls == 2

\* nanoid(16) session ids, target paths, request slots.
SessionIds == {1}
Paths == {1}
ChunkReqs == 1..MaxChunkReqs
\* Declared totals, and chunk indices: the controller accepts every
\* index >= 0, also one past the declared total.
TotalChunkChoices == {1, 2}
ChunkIdx == {0, 1}

\* Marker for a path that does not exist on disk (ENOENT on access).
NoFile == <<-1>>

\* Chunk payloads of different lengths.
ChunkBuffers == {<<1>>, <<2, 1>>}

VARIABLES
  chunkUploadSessions,  \* keys of the global Map<string, ChunkUploadSession>
  sessionObj,           \* the ChunkUploadSession objects, by id
  tmpDir,               \* [s] TRUE iff .tmp/<s> exists
  slot,                 \* [s][i] bytes of .tmp/<s>/chunk-<i>, or NoFile
  store,                \* [p] bytes of the object at target path p, or NoFile
  creq                  \* in-flight and finished chunk-upload requests

chunkVars == <<chunkUploadSessions, sessionObj, tmpDir, slot, store, creq>>

VARIABLES
  live,         \* [f] bytes of the live object on disk, or NoFile
  fileRow,      \* [f] the File row: size and checksum
  versionDisk,  \* [f][n] bytes of .versions/<f>/v<n>, or NoFile
  versionRows,  \* the FileVersion rows
  vreq          \* in-flight and finished version-store requests

versionVars == <<live, fileRow, versionDisk, versionRows, vreq>>

VARIABLES
  webhookRow,   \* [w] the Webhook row with its WebhookEvent rows
  jobs,         \* [j] the jobs of the Bull queue
  deliveries,   \* the WebhookDelivery rows, in creation order
  trig          \* the last triggerEvent call: its event, its fault, its outcome

webhookVars == <<webhookRow, jobs, deliveries, trig>>

VARIABLES
  variantDisk,  \* [f][k] bytes of .variants/<f>/<k>.webp, or NoFile
  variantRows,  \* the ImageVariant rows
  imageQueue,   \* [f][k] number of waiting 'createVariant' jobs
  ireq,         \* in-flight and finished getPresetVariant calls and job runs
  piv,          \* the last processImageVariants call: its fault, its outcome
  dav           \* the deleteAllVariants call under way, if any

imageVars == <<variantDisk, variantRows, imageQueue, ireq, piv, dav>>

VARIABLES
  renamed,      \* [f] objects saved under a disambiguated name next to f
  uploaded,     \* number of 201 answers of uploadFile
  deleted,      \* number of 200 answers of deleteFile
  suffixed,     \* [id] bytes of the object saved under the name with suffix id
  nano,         \* number of nanoid(6) suffixes drawn
  sreq          \* in-flight and finished saveFile calls

storeVars == <<renamed, uploaded, deleted, suffixed, nano, sreq>>

VARIABLES
  fileCall,     \* the last getFile call: its Range header and its response
  cmpCall       \* the last compareVersions call: its arguments and its result

queryVars == <<fileCall, cmpCall>>

VARIABLES
  versioning            \* config.features.versioning of the deployment

configVars == <<versioning>>

vars == <<chunkVars, versionVars, webhookVars, imageVars, storeVars, queryVars, configVars>>

(***************************************************************************)
(* Helpers                                                                 *)
(***************************************************************************)
Max(a, b) == IF a >= b THEN a ELSE b

\* A positional write of buf at offset pos into a file (an fs.WriteStream keeps
\* its own position; bytes past the end extend the file).
WriteAt(file, pos, buf) ==
  LET old == IF file = NoFile THEN <<>> ELSE file
      n == Max(Len(old), pos + Len(buf))
  IN [k \in 1..n |->
        IF k > pos /\ k <= pos + Len(buf) THEN buf[k - pos]
        ELSE IF k <= Len(old) THEN old[k] ELSE 0]

NoSession == [created |-> FALSE, totalChunks |-> 0, chunksReceived |-> 0, filePath |-> 1]

\* A request of the chunk-upload routes.  seen/seenTotal are the counters the
\* handler read at its lookup.  History of the call, read by the properties
\* only: snap (the slots on disk when finalize was called), raced (a chunk
\* write landed while the finalize ran), conc (the uploadChunk was called while
\* another one on the same session was in flight), outOfOrder (the chunk
\* landed after a chunk of a higher index).
IdleReq ==
  [op |-> "none", pc |-> "idle", sid |-> 1, idx |-> 0, buf |-> <<>>,
   i |-> 0, chunkData |-> <<>>, out |-> <<>>,
   seen |-> 0, seenTotal |-> 0, snap |-> <<>>, raced |-> FALSE,
   conc |-> FALSE, outOfOrder |-> FALSE, status |-> 0]

\* Requests are started in id order, so that a request id says nothing more
\* than "the k-th call made".
NextReq(r) == creq[r].pc = "idle" /\ \A q \in ChunkReqs : q < r => creq[q].pc # "idle"

InFlight(r) == creq[r].pc \notin {"idle", "done"}
UploadInFlight(r) == creq[r].op = "upload" /\ InFlight(r)
FinalizeInFlight(r) == creq[r].op = "finalize" /\ InFlight(r)

\* The response of a finished request: only the outcome is kept.
Respond(q, code) ==
  [q EXCEPT !.pc = "done", !.status = code, !.idx = 0, !.buf = <<>>,
            !.i = 0, !.chunkData = <<>>]

ChunkInit ==
  /\ chunkUploadSessions = {}
  /\ sessionObj = [s \in SessionIds |-> NoSession]
  /\ tmpDir = [s \in SessionIds |-> FALSE]
  /\ slot = [s \in SessionIds |-> [i \in ChunkIdx |-> NoFile]]
  /\ store = [p \in Paths |-> NoFile]
  /\ creq = [r \in ChunkReqs |-> IdleReq]

(***************************************************************************)
(* FileService.initChunkedUpload                                           *)
(***************************************************************************)
InitChunkedUpload(s, n, p) ==
  /\ ~sessionObj[s].created
  /\ tmpDir' = [tmpDir EXCEPT ![s] = TRUE]
  /\ sessionObj' = [sessionObj EXCEPT ![s] =
        [created |-> TRUE, totalChunks |-> n, chunksReceived |-> 0, filePath |-> p]]
  /\ chunkUploadSessions' = chunkUploadSessions \cup {s}
  /\ UNCHANGED <<slot, store, creq>>
  /\ UNCHANGED <<versionVars, webhookVars, imageVars, storeVars, queryVars, configVars>>

(***************************************************************************)
(* FileService.uploadChunk                                                 *)
(***************************************************************************)
\* Lookup of the session; an unknown id is a 404.
UploadChunkStart(r, s, idx, buf) ==
  /\ NextReq(r)
  /\ creq' = [creq EXCEPT ![r] =
        IF s \notin chunkUploadSessions
        THEN Respond([IdleReq EXCEPT !.op = "upload", !.sid = s], 404)
        ELSE [IdleReq EXCEPT !.op = "upload", !.sid = s, !.idx = idx, !.buf = buf,
                             !.pc = "u_write",
                             !.seen = sessionObj[s].chunksReceived,
                             !.conc = \E q \in ChunkReqs : q # r /\ UploadInFlight(q)
                                                          /\ creq[q].sid = s]]
  /\ UNCHANGED <<chunkUploadSessions, sessionObj, tmpDir, slot, store>>
  /\ UNCHANGED <<versionVars, webhookVars, imageVars, storeVars, queryVars, configVars>>

\* A write that keeps the chunk already in the slot.
UploadChunkWrite_FirstWins(r) ==
  /\ creq[r].op = "upload" /\ creq[r].pc = "u_write"
  /\ LET s == creq[r].sid IN
     /\ tmpDir[s]
     /\ slot' = [slot EXCEPT ![s][creq[r].idx] = IF @ = NoFile THEN creq[r].buf ELSE @]
     /\ creq' = [creq EXCEPT ![r].pc = "u_count"]
  /\ UNCHANGED <<chunkUploadSessions, sessionObj, tmpDir, store>>
  /\ UNCHANGED <<versionVars, webhookVars, imageVars, storeVars, queryVars, configVars>>

\* await fsPromises.writeFile(chunkPath, chunkBuffer)
UploadChunkWrite(r) ==
  /\ creq[r].op = "upload" /\ creq[r].pc = "u_write"
  /\ LET s == creq[r].sid IN
     IF tmpDir[s]
     THEN /\ slot' = [slot EXCEPT ![s][creq[r].idx] = creq[r].buf]
          /\ creq' = [q \in ChunkReqs |->
                IF q = r THEN [creq[q] EXCEPT !.pc = "u_count",
                                              !.outOfOrder = \E j \in ChunkIdx :
                                                   j > creq[r].idx /\ slot[s][j] # NoFile]
                ELSE IF FinalizeInFlight(q) /\ creq[q].sid = s
                THEN [creq[q] EXCEPT !.raced = TRUE]
                ELSE creq[q]]
     ELSE /\ creq' = [creq EXCEPT ![r] = Respond(@, 500)]
          /\ UNCHANGED slot
  /\ UNCHANGED <<chunkUploadSessions, sessionObj, tmpDir, store>>
  /\ UNCHANGED <<versionVars, webhookVars, imageVars, storeVars, queryVars, configVars>>

\* A lost update: the counter is written from the value read at lookup time.
UploadChunkCount_StaleRead(r) ==
  /\ creq[r].op = "upload" /\ creq[r].pc = "u_count"
  /\ LET s == creq[r].sid IN
     /\ sessionObj' = [sessionObj EXCEPT ![s].chunksReceived = creq[r].seen + 1]
     /\ chunkUploadSessions' = chunkUploadSessions \cup {s}
  /\ creq' = [creq EXCEPT ![r] = Respond([@ EXCEPT !.seen = 0], 200)]
  /\ UNCHANGED <<tmpDir, slot, store>>
  /\ UNCHANGED <<versionVars, webhookVars, imageVars, storeVars, queryVars, configVars>>

\* session.chunksReceived++; global.chunkUploadSessions.set(sessionId, session)
UploadChunkCount(r) ==
  /\ creq[r].op = "upload" /\ creq[r].pc = "u_count"
  /\ LET s == creq[r].sid IN
     /\ sessionObj' = [sessionObj EXCEPT ![s].chunksReceived = @ + 1]
     /\ chunkUploadSessions' = chunkUploadSessions \cup {s}
  /\ creq' = [creq EXCEPT ![r] = Respond([@ EXCEPT !.seen = 0], 200)]
  /\ UNCHANGED <<tmpDir, slot, store>>
  /\ UNCHANGED <<versionVars, webhookVars, imageVars, storeVars, queryVars, configVars>>

(***************************************************************************)
(* FileService.finalizeChunkedUpload                                       *)
(***************************************************************************)
\* Lookup and the completeness check.
FinalizeStart(r, s) ==
  /\ NextReq(r)
  /\ creq' = [creq EXCEPT ![r] =
        IF s \notin chunkUploadSessions
        THEN Respond([IdleReq EXCEPT !.op = "finalize", !.sid = s], 404)
        ELSE LET base == [IdleReq EXCEPT !.op = "finalize", !.sid = s,
                                         !.seen = sessionObj[s].chunksReceived,
                                         !.seenTotal = sessionObj[s].totalChunks,
                                         !.snap = slot[s]]
             IN IF sessionObj[s].chunksReceived # sessionObj[s].totalChunks
                THEN Respond(base, 400)
                ELSE [base EXCEPT !.pc = "f_open"]]
  /\ UNCHANGED <<chunkUploadSessions, sessionObj, tmpDir, slot, store>>
  /\ UNCHANGED <<versionVars, webhookVars, imageVars, storeVars, queryVars, configVars>>

\* ensureDirectoryExists, then fs.createWriteStream(finalFilePath): the file
\* is opened with flag 'w', i.e. created or truncated.
FinalizeOpen(r) ==
  /\ creq[r].op = "finalize" /\ creq[r].pc = "f_open"
  /\ LET s == creq[r].sid IN
     /\ store' = [store EXCEPT ![sessionObj[s].filePath] = <<>>]
     /\ creq' = [creq EXCEPT ![r].i = 0,
                             ![r].pc = IF 0 < sessionObj[s].totalChunks
                                       THEN "f_read" ELSE "f_close"]
  /\ UNCHANGED <<chunkUploadSessions, sessionObj, tmpDir, slot>>
  /\ UNCHANGED <<versionVars, webhookVars, imageVars, storeVars, queryVars, configVars>>

\* const chunkData = await fsPromises.readFile(chunkPath)
FinalizeRead(r) ==
  /\ creq[r].op = "finalize" /\ creq[r].pc = "f_read"
  /\ LET s == creq[r].sid
         i == creq[r].i IN
     IF slot[s][i] # NoFile
     THEN creq' = [creq EXCEPT ![r].chunkData = slot[s][i], ![r].pc = "f_write"]
     ELSE creq' = [creq EXCEPT ![r] = Respond(@, 500)]
  /\ UNCHANGED <<chunkUploadSessions, sessionObj, tmpDir, slot, store>>
  /\ UNCHANGED <<versionVars, webhookVars, imageVars, storeVars, queryVars, configVars>>

\* Assembly that puts each chunk in front of the bytes written so far.
FinalizeWrite_Prepend(r) ==
  /\ creq[r].op = "finalize" /\ creq[r].pc = "f_write"
  /\ LET s == creq[r].sid
         i == creq[r].i
         p == sessionObj[s].filePath
         d == creq[r].chunkData IN
     /\ store' = [store EXCEPT ![p] = d \o (IF @ = NoFile THEN <<>> ELSE @)]
     /\ IF slot[s][i] # NoFile
        THEN /\ slot' = [slot EXCEPT ![s][i] = NoFile]
             /\ creq' = [creq EXCEPT ![r].out = d \o @, ![r].i = i + 1,
                                     ![r].chunkData = <<>>,
                                     ![r].pc = IF i + 1 < sessionObj[s].totalChunks
                                               THEN "f_read" ELSE "f_close"]
        ELSE /\ creq' = [creq EXCEPT ![r] = Respond([@ EXCEPT !.out = d \o @], 500)]
             /\ UNCHANGED slot
  /\ UNCHANGED <<chunkUploadSessions, sessionObj, tmpDir>>
  /\ UNCHANGED <<versionVars, webhookVars, imageVars, storeVars, queryVars, configVars>>

\* writeStream.write(chunkData, cb); await fsPromises.unlink(chunkPath); i++
FinalizeWrite(r) ==
  /\ creq[r].op = "finalize" /\ creq[r].pc = "f_write"
  /\ LET s == creq[r].sid
         i == creq[r].i
         p == sessionObj[s].filePath
         d == creq[r].chunkData IN
     /\ store' = [store EXCEPT ![p] = WriteAt(@, Len(creq[r].out), d)]
     /\ IF slot[s][i] # NoFile
        THEN /\ slot' = [slot EXCEPT ![s][i] = NoFile]
             /\ creq' = [creq EXCEPT ![r].out = @ \o d, ![r].i = i + 1,
                                     ![r].chunkData = <<>>,
                                     ![r].pc = IF i + 1 < sessionObj[s].totalChunks
                                               THEN "f_read" ELSE "f_close"]
        ELSE /\ creq' = [creq EXCEPT ![r] = Respond([@ EXCEPT !.out = @ \o d], 500)]
             /\ UNCHANGED slot
  /\ UNCHANGED <<chunkUploadSessions, sessionObj, tmpDir>>
  /\ UNCHANGED <<versionVars, webhookVars, imageVars, storeVars, queryVars, configVars>>

\* writeStream.end(cb); stat(finalFilePath); rm(tmp, {recursive, force});
\* global.chunkUploadSessions.delete(sessionId); return fileMetadata
FinalizeClose(r) ==
  /\ creq[r].op = "finalize" /\ creq[r].pc = "f_close"
  /\ LET s == creq[r].sid IN
     IF store[sessionObj[s].filePath] # NoFile
     THEN /\ tmpDir' = [tmpDir EXCEPT ![s] = FALSE]
          /\ slot' = [slot EXCEPT ![s] = [i \in ChunkIdx |-> NoFile]]
          /\ chunkUploadSessions' = chunkUploadSessions \ {s}
          /\ creq' = [creq EXCEPT ![r] = Respond(@, 201)]
     ELSE /\ creq' = [creq EXCEPT ![r] = Respond(@, 500)]
          /\ UNCHANGED <<tmpDir, slot, chunkUploadSessions>>
  /\ UNCHANGED <<sessionObj, store>>
  /\ UNCHANGED <<versionVars, webhookVars, imageVars, storeVars, queryVars, configVars>>

ChunkQuiescent == \A r \in ChunkReqs : ~InFlight(r)

(***************************************************************************)
(* Webhook delivery subsystem (WebhookService, Bull queue                  *)
(* 'webhook-delivery')                                                     *)
(***************************************************************************)
WebhookIds == {1, 2}
JobIds == 1..MaxJobs
EventTypes == {"file.created", "version.created"}

\* Outcomes of axios.post: an HTTP status, or 0 for no response at all
\* (network error, 10 s timeout).
Responses == {0, 200, 204, 302, 500}

\* What can go wrong inside triggerEvent: nothing, the findMany lookup
\* rejects, or a webhookQueue.add rejects.
TriggerFaults == {"none", "lookup", "add"}

\* webhookQueue.add('deliver', data) passes no job options and the queue is
\* built without defaultJobOptions: Bull then gives a job one attempt.
DefaultJobAttempts == 1

\* The attempt count the 'failed' listener reports a job as dropped at.
DropLogAttempts == 5

\* secret is TRUE iff the row's secret passes the processor's test
\* `if (webhook.secret)`: a non-empty string.
NoWebhook == [exists |-> FALSE, active |-> FALSE, secret |-> FALSE, events |-> {}]
NoJob == [state |-> "none", webhookId |-> 1, event |-> "file.created",
          attemptsMade |-> 0, attempts |-> 0, dropLogged |-> FALSE]

\* No triggerEvent call was made yet.
NoTrigger == [event |-> "none", fault |-> "none", returned |-> TRUE]

\* A database in which two webhooks were registered (createWebhook sets
\* active: true): one with a secret and every event, one without a secret
\* and one event.
WebhookInit ==
  /\ webhookRow = [w \in WebhookIds |->
        IF w = 1
        THEN [exists |-> TRUE, active |-> TRUE, secret |-> TRUE, events |-> EventTypes]
        ELSE [exists |-> TRUE, active |-> TRUE, secret |-> FALSE,
              events |-> {"file.created"}]]
  /\ jobs = [j \in JobIds |-> NoJob]
  /\ deliveries = <<>>
  /\ trig = NoTrigger

\* A database without webhooks.
WebhookInitEmpty ==
  /\ webhookRow = [w \in WebhookIds |-> NoWebhook]
  /\ jobs = [j \in JobIds |-> NoJob]
  /\ deliveries = <<>>
  /\ trig = NoTrigger

\* prisma.webhook.findMany({ active: true, events: { some: { event } } })
Subscribers_IgnoreActive(eventType) ==
  {w \in WebhookIds : webhookRow[w].exists /\ eventType \in webhookRow[w].events}

Subscribers(eventType) ==
  {w \in WebhookIds : webhookRow[w].exists /\ webhookRow[w].active
                        /\ eventType \in webhookRow[w].events}

FreeJobs == {j \in JobIds : jobs[j].state = "none"}

\* The k-th smallest element of a set of numbers.
RECURSIVE Nth(_, _)
Nth(S, k) ==
  LET m == CHOOSE x \in S : \A y \in S : x <= y
  IN IF k = 1 THEN m ELSE Nth(S \ {m}, k - 1)

Rank(S, x) == Cardinality({y \in S : y <= x})

\* for (const webhook of webhooks) await webhookQueue.add('deliver', {...}):
\* the queue after one job was added for each of the first n webhooks found.
EnqueuedFirst(eventType, n) ==
  LET subs == Subscribers(eventType)
      ids == {Nth(FreeJobs, k) : k \in 1..n}
  IN [j \in JobIds |->
        IF j \in ids
        THEN [state |-> "waiting", webhookId |-> Nth(subs, Rank(ids, j)),
              event |-> eventType, attemptsMade |-> 0,
              attempts |-> DefaultJobAttempts, dropLogged |-> FALSE]
        ELSE jobs[j]]

\* The queue after one job per webhook found was added.
Enqueued(eventType) == EnqueuedFirst(eventType, Cardinality(Subscribers(eventType)))

\* The body of triggerEvent inside its try block: the queue it leaves when
\* fault strikes; failedAdd is the add that rejects under fault "add".
TriggerQueue(eventType, fault, failedAdd) ==
  IF fault = "lookup" THEN jobs
  ELSE IF fault = "add" THEN EnqueuedFirst(eventType, failedAdd - 1)
  ELSE Enqueued(eventType)

\* A fault that can strike: an add rejects only if an add is made.
FaultPossible(eventType, fault, failedAdd) ==
  IF fault = "add" THEN failedAdd \in 1..Cardinality(Subscribers(eventType))
  ELSE failedAdd = 1

\* The catch block of triggerEvent logs and returns: the call resolves
\* whatever struck inside the try block.
TriggerOutcome_Rethrow(eventType, fault) ==
  [event |-> eventType, fault |-> fault, returned |-> (fault = "none")]

TriggerOutcome(eventType, fault) ==
  [event |-> eventType, fault |-> fault, returned |-> TRUE]

\* WebhookService.triggerEvent
TriggerEvent(eventType, fault, failedAdd) ==
  /\ Cardinality(Subscribers(eventType)) <= Cardinality(FreeJobs)
  /\ FaultPossible(eventType, fault, failedAdd)
  /\ jobs' = TriggerQueue(eventType, fault, failedAdd)
  /\ trig' = TriggerOutcome(eventType, fault)
  /\ UNCHANGED <<webhookRow, deliveries>>
  /\ UNCHANGED <<chunkVars, versionVars, imageVars, storeVars, queryVars, configVars>>

\* WebhookService.updateWebhook with data.active
UpdateWebhook(w, active) ==
  /\ webhookRow[w].exists /\ webhookRow[w].active # active
  /\ webhookRow' = [webhookRow EXCEPT ![w].active = active]
  /\ UNCHANGED <<jobs, deliveries, trig>>
  /\ UNCHANGED <<chunkVars, versionVars, imageVars, storeVars, queryVars, configVars>>

\* The delivery rows without those of webhook w.
RECURSIVE FilterRows(_, _)
FilterRows(rows, w) ==
  IF rows = <<>> THEN <<>>
  ELSE IF Head(rows).webhookId = w THEN FilterRows(Tail(rows), w)
  ELSE <<Head(rows)>> \o FilterRows(Tail(rows), w)

\* WebhookService.deleteWebhook: the WebhookEvent and WebhookDelivery rows go
\* with the webhook (onDelete: Cascade).
DeleteWebhook(w) ==
  /\ webhookRow[w].exists
  /\ webhookRow' = [webhookRow EXCEPT ![w] = NoWebhook]
  /\ deliveries' = FilterRows(deliveries, w)
  /\ UNCHANGED <<jobs, trig>>
  /\ UNCHANGED <<chunkVars, versionVars, imageVars, storeVars, queryVars, configVars>>

\* Bull after the processor threw: the attempt is counted; the job is retried
\* while attempts are left and is failed otherwise; the 'failed' listener
\* logs, and logs the job as dropped from DropLogAttempts attempts on.
JobFailed(job) ==
  LET made == job.attemptsMade + 1
  IN [job EXCEPT !.attemptsMade = made,
                 !.state = IF made < job.attempts THEN "waiting" ELSE "failed",
                 !.dropLogged = (made >= DropLogAttempts)]

\* The payload object a job carries; timestamp and data are fixed once the
\* job is added and play no part in the delivery.
Payload(job) == [event |-> job.event]

\* JSON.stringify(payload): the serialized string, as a sequence of tokens.
JSONStringify(payload) == <<"{", "event", ":", payload.event, "}">>

\* String.prototype.trim on a token sequence.
RECURSIVE TrimLeft(_)
TrimLeft(str) ==
  IF str # <<>> /\ Head(str) = " " THEN TrimLeft(Tail(str)) ELSE str

RECURSIVE TrimRight(_)
TrimRight(str) ==
  IF str # <<>> /\ str[Len(str)] = " "
  THEN TrimRight(SubSeq(str, 1, Len(str) - 1)) ELSE str

Trim(str) == TrimRight(TrimLeft(str))

\* What axios.post puts on the wire for string data under Content-Type
\* application/json: a string that parses as JSON is sent trimmed.
TransformRequest(data) == Trim(data)

\* createHmac('sha256', secret).update(payloadString).digest('hex'), kept
\* symbolic: distinct keys or messages give distinct digests.
HMACSHA256(key, message) == <<"hmac-sha256", key, message>>

\* The secret of webhook w when it has one.
SecretOf(w) == <<"secret", w>>

NoSignature == <<>>

\* The X-Webhook-Signature header of a delivery, NoSignature when the
\* header is not set.
SignatureHeader_OverEvent(w, payloadString) ==
  IF webhookRow[w].secret THEN HMACSHA256(SecretOf(w), <<payloadString[4]>>)
  ELSE NoSignature

SignatureHeader(w, payloadString) ==
  IF webhookRow[w].secret THEN HMACSHA256(SecretOf(w), payloadString)
  ELSE NoSignature

\* axios resolves for a status in 200..299 (default validateStatus) and
\* rejects otherwise: no response (0), a redirect that maxRedirects: 0 does
\* not follow, any other status.
AxiosResolves(resp) == resp >= 200 /\ resp < 300

\* success: response.status >= 200 && response.status < 300
ResponseSuccess_Only200(status) == status = 200

ResponseSuccess(status) == status >= 200 /\ status < 300

\* A WebhookDelivery row.  job, asked, answer, body and signature are not
\* columns: they keep which job wrote the row, whether the endpoint was
\* asked, what it answered, and what was put on the wire.
DeliveryRow(j, code, ok, asked, answer, body, signature) ==
  [webhookId |-> jobs[j].webhookId, event |-> jobs[j].event,
   statusCode |-> code, success |-> ok, job |-> j,
   asked |-> asked, answer |-> answer, body |-> body, signature |-> signature]

\* The processor looks up the webhook but posts whether it is active or not.
ProcessJob_NoActiveCheck(j, resp) ==
  /\ jobs[j].state = "waiting"
  /\ LET w == webhookRow[jobs[j].webhookId]
         payloadString == JSONStringify(Payload(jobs[j]))
         body == TransformRequest(payloadString)
         signature == SignatureHeader(jobs[j].webhookId, payloadString) IN
     IF ~w.exists
     THEN /\ resp = 0
          /\ jobs' = [jobs EXCEPT ![j] = JobFailed(@)]
          /\ UNCHANGED deliveries
     ELSE IF AxiosResolves(resp)
     THEN /\ deliveries' = Append(deliveries,
                DeliveryRow(j, resp, ResponseSuccess(resp), TRUE, resp, body, signature))
          /\ jobs' = [jobs EXCEPT ![j].state = "completed"]
     ELSE /\ deliveries' = Append(deliveries,
                DeliveryRow(j, resp, FALSE, TRUE, resp, body, signature))
          /\ jobs' = [jobs EXCEPT ![j] = JobFailed(@)]
  /\ UNCHANGED <<webhookRow, trig>>
  /\ UNCHANGED <<chunkVars, versionVars, imageVars, storeVars, queryVars, configVars>>

\* One run of the 'deliver' processor on a waiting job; resp is what the
\* endpoint answers if it is asked.
ProcessJob(j, resp) ==
  /\ jobs[j].state = "waiting"
  /\ LET w == webhookRow[jobs[j].webhookId]
         payloadString == JSONStringify(Payload(jobs[j]))
         body == TransformRequest(payloadString)
         signature == SignatureHeader(jobs[j].webhookId, payloadString) IN
     IF ~w.exists
     THEN \* 'Webhook neaktivny alebo neexistuje'; the delivery row of the
          \* catch block violates the foreign key and is not written
          /\ resp = 0
          /\ jobs' = [jobs EXCEPT ![j] = JobFailed(@)]
          /\ UNCHANGED deliveries
     ELSE IF ~w.active
     THEN /\ resp = 0
          /\ deliveries' = Append(deliveries,
                DeliveryRow(j, 0, FALSE, FALSE, 0, <<>>, NoSignature))
          /\ jobs' = [jobs EXCEPT ![j] = JobFailed(@)]
     ELSE IF AxiosResolves(resp)
     THEN /\ deliveries' = Append(deliveries,
                DeliveryRow(j, resp, ResponseSuccess(resp), TRUE, resp, body, signature))
          /\ jobs' = [jobs EXCEPT ![j].state = "completed"]
     ELSE /\ deliveries' = Append(deliveries,
                DeliveryRow(j, resp, FALSE, TRUE, resp, body, signature))
          /\ jobs' = [jobs EXCEPT ![j] = JobFailed(@)]
  /\ UNCHANGED <<webhookRow, trig>>
  /\ UNCHANGED <<chunkVars, versionVars, imageVars, storeVars, queryVars, configVars>>

(***************************************************************************)
(* Version store (VersioningService)                                       *)
(***************************************************************************)
FileIds == {1}
\* A fileId that no File row carries.
UnknownFileId == 2
RequestedFileIds == FileIds \cup {UnknownFileId}
VerReqs == 1..MaxVerReqs
\* Every call creates at most one version, so version numbers stay within
\* 0..MaxVerReqs.
VersionNumbers == 0..MaxVerReqs

\* Contents of a stored object.
Contents == {<<1>>, <<2, 1>>}

\* createHash('md5').update(buffer).digest('hex'): a digest that tells the
\* contents of the model apart (no collisions among them).
RECURSIVE MD5(_)
MD5(b) == IF b = <<>> THEN 7 ELSE (Head(b) + 1) + 4 * MD5(Tail(b))

\* A request of the version routes.  made says whether the call created a
\* FileVersion row; preLive and preMax are what the live object and the
\* highest version number were when restoreVersion was called.
IdleVReq ==
  [op |-> "none", pc |-> "idle", f |-> 1, v |-> 0, newNum |-> 0, size |-> 0,
   checksum |-> 0, rowId |-> 0, made |-> FALSE, status |-> 0,
   preLive |-> <<>>, preMax |-> 0, trigFault |-> "none",
   versions |-> <<>>, buffer |-> NoFile]

NextVReq(r) == vreq[r].pc = "idle" /\ \A q \in VerReqs : q < r => vreq[q].pc # "idle"
VInFlight(r) == vreq[r].pc \notin {"idle", "done"}

VRespond(q, code) == [q EXCEPT !.pc = "done", !.status = code, !.size = 0, !.checksum = 0,
                               !.rowId = 0]

RowsOf(f) == {x \in versionRows : x.fileId = f}

\* prisma.file.findUnique({ where: { id: fileId } }) finds a row.
FileFound(f) == f \in DOMAIN fileRow

\* versions: { orderBy: { versionNumber: 'desc' }, take: 1 }
LatestVersionNumber(f) ==
  IF RowsOf(f) = {} THEN 0
  ELSE CHOOSE n \in {x.versionNumber : x \in RowsOf(f)} :
          \A x \in RowsOf(f) : x.versionNumber <= n

VersionInit ==
  /\ live = [f \in FileIds |-> <<1>>]
  /\ fileRow = [f \in FileIds |-> [size |-> Len(live[f]), checksum |-> MD5(live[f])]]
  /\ versionDisk = [f \in FileIds |-> [n \in VersionNumbers |-> NoFile]]
  /\ versionRows = {}
  /\ vreq = [r \in VerReqs |-> IdleVReq]

\* A content mutation of the live object made outside the version store
\* (finalizeChunkedUpload opens its target with createWriteStream and
\* rewrites it).
OverwriteObject(f, b) ==
  /\ live[f] # b
  /\ live' = [live EXCEPT ![f] = b]
  /\ UNCHANGED <<fileRow, versionDisk, versionRows, vreq>>
  /\ UNCHANGED <<chunkVars, webhookVars, imageVars, storeVars, queryVars, configVars>>

(***************************************************************************)
(* VersioningService.createVersion                                         *)
(***************************************************************************)
CreateVersionStart(r, f) ==
  /\ NextVReq(r)
  /\ vreq' = [vreq EXCEPT ![r] =
        IF ~versioning
        THEN VRespond([IdleVReq EXCEPT !.op = "create", !.f = f], 400)
        ELSE [IdleVReq EXCEPT !.op = "create", !.f = f, !.pc = "cv_find"]]
  /\ UNCHANGED <<live, fileRow, versionDisk, versionRows>>
  /\ UNCHANGED <<chunkVars, webhookVars, imageVars, storeVars, queryVars, configVars>>

\* The first version is numbered 0.
CreateVersionFind_FromZero(r) ==
  /\ vreq[r].pc = "cv_find"
  /\ vreq' = [vreq EXCEPT ![r].newNum = IF RowsOf(vreq[r].f) = {} THEN 0
                                        ELSE LatestVersionNumber(vreq[r].f) + 1,
                          ![r].pc = "cv_copy"]
  /\ UNCHANGED <<live, fileRow, versionDisk, versionRows>>
  /\ UNCHANGED <<chunkVars, webhookVars, imageVars, storeVars, queryVars, configVars>>

\* prisma.file.findUnique with the latest version;
\* newVersionNumber = latestVersionNumber + 1
CreateVersionFind(r) ==
  /\ vreq[r].pc = "cv_find"
  /\ vreq' = [vreq EXCEPT ![r] =
        IF ~FileFound(vreq[r].f)
        THEN VRespond(vreq[r], 404)
        ELSE [vreq[r] EXCEPT !.newNum = LatestVersionNumber(vreq[r].f) + 1,
                             !.pc = "cv_copy"]]
  /\ UNCHANGED <<live, fileRow, versionDisk, versionRows>>
  /\ UNCHANGED <<chunkVars, webhookVars, imageVars, storeVars, queryVars, configVars>>

\* fs.mkdir(fileVersionDir, {recursive}); fs.copyFile(original, v<newNum>)
CreateVersionCopy(r) ==
  /\ vreq[r].pc = "cv_copy"
  /\ LET f == vreq[r].f IN
     IF live[f] # NoFile
     THEN /\ versionDisk' = [versionDisk EXCEPT ![f][vreq[r].newNum] = live[f]]
          /\ vreq' = [vreq EXCEPT ![r].pc = "cv_stat"]
     ELSE /\ vreq' = [vreq EXCEPT ![r] = VRespond(@, 500)]
          /\ UNCHANGED versionDisk
  /\ UNCHANGED <<live, fileRow, versionRows>>
  /\ UNCHANGED <<chunkVars, webhookVars, imageVars, storeVars, queryVars, configVars>>

\* fs.stat and fs.readFile of the version slot; md5 of what was read
CreateVersionStat(r) ==
  /\ vreq[r].pc = "cv_stat"
  /\ LET bytes == versionDisk[vreq[r].f][vreq[r].newNum] IN
     IF bytes # NoFile
     THEN vreq' = [vreq EXCEPT ![r].size = Len(bytes), ![r].checksum = MD5(bytes),
                               ![r].pc = "cv_row"]
     ELSE vreq' = [vreq EXCEPT ![r] = VRespond(@, 500)]
  /\ UNCHANGED <<live, fileRow, versionDisk, versionRows>>
  /\ UNCHANGED <<chunkVars, webhookVars, imageVars, storeVars, queryVars, configVars>>

\* prisma.fileVersion.create under @@unique([fileId, versionNumber]), then
\* webhookService.triggerEvent(VERSION_CREATED); a rejection of that call
\* would reach the catch block and become a 500.  The call returns to its
\* caller (the route, or restoreVersion).
CreateVersionRow(r, fault, failedAdd) ==
  /\ vreq[r].pc = "cv_row"
  /\ LET f == vreq[r].f
         n == vreq[r].newNum
         outcome == TriggerOutcome("version.created", fault) IN
     IF \E x \in RowsOf(f) : x.versionNumber = n
     THEN /\ fault = "none" /\ failedAdd = 1
          /\ vreq' = [vreq EXCEPT ![r] = VRespond(@, 500)]
          /\ UNCHANGED <<versionRows, jobs, trig>>
     ELSE /\ Cardinality(Subscribers("version.created")) <= Cardinality(FreeJobs)
          /\ FaultPossible("version.created", fault, failedAdd)
          /\ jobs' = TriggerQueue("version.created", fault, failedAdd)
          /\ trig' = outcome
          /\ versionRows' = versionRows \cup
                {[id |-> r, fileId |-> f, versionNumber |-> n,
                  size |-> vreq[r].size, checksum |-> vreq[r].checksum]}
          /\ vreq' = [vreq EXCEPT ![r] =
                IF ~outcome.returned
                THEN VRespond([@ EXCEPT !.made = TRUE, !.trigFault = fault], 500)
                ELSE IF @.op = "restore"
                THEN [@ EXCEPT !.made = TRUE, !.trigFault = fault, !.pc = "rs_copy",
                               !.size = 0, !.checksum = 0]
                ELSE VRespond([@ EXCEPT !.made = TRUE, !.trigFault = fault], 200)]
  /\ UNCHANGED <<live, fileRow, versionDisk>>
  /\ UNCHANGED <<chunkVars, webhookRow, deliveries, imageVars, storeVars, queryVars, configVars>>

(***************************************************************************)
(* VersioningService.restoreVersion                                        *)
(***************************************************************************)
\* The live object is overwritten without a snapshot of its current state.
RestoreVersionStart_NoSnapshot(r, f, v) ==
  /\ NextVReq(r)
  /\ vreq' = [vreq EXCEPT ![r] =
        IF ~versioning
        THEN VRespond([IdleVReq EXCEPT !.op = "restore", !.f = f, !.v = v], 400)
        ELSE IF ~FileFound(f) \/ ~\E x \in RowsOf(f) : x.versionNumber = v
        THEN VRespond([IdleVReq EXCEPT !.op = "restore", !.f = f, !.v = v], 404)
        ELSE [IdleVReq EXCEPT !.op = "restore", !.f = f, !.v = v, !.pc = "rs_copy",
                              !.preLive = live[f], !.preMax = LatestVersionNumber(f)]]
  /\ UNCHANGED <<live, fileRow, versionDisk, versionRows>>
  /\ UNCHANGED <<chunkVars, webhookVars, imageVars, storeVars, queryVars, configVars>>

\* Lookup of the file and of the version row; then createVersion is entered.
RestoreVersionStart(r, f, v) ==
  /\ NextVReq(r)
  /\ vreq' = [vreq EXCEPT ![r] =
        IF ~versioning
        THEN VRespond([IdleVReq EXCEPT !.op = "restore", !.f = f, !.v = v], 400)
        ELSE IF ~FileFound(f) \/ ~\E x \in RowsOf(f) : x.versionNumber = v
        THEN VRespond([IdleVReq EXCEPT !.op = "restore", !.f = f, !.v = v], 404)
        ELSE [IdleVReq EXCEPT !.op = "restore", !.f = f, !.v = v, !.pc = "cv_find",
                              !.preLive = live[f], !.preMax = LatestVersionNumber(f)]]
  /\ UNCHANGED <<live, fileRow, versionDisk, versionRows>>
  /\ UNCHANGED <<chunkVars, webhookVars, imageVars, storeVars, queryVars, configVars>>

\* fs.copyFile(versionedFilePath, currentFilePath)
RestoreVersionCopy(r) ==
  /\ vreq[r].pc = "rs_copy"
  /\ LET f == vreq[r].f
         bytes == versionDisk[f][vreq[r].v] IN
     IF bytes # NoFile
     THEN /\ live' = [live EXCEPT ![f] = bytes]
          /\ vreq' = [vreq EXCEPT ![r].pc = "rs_stat"]
     ELSE /\ vreq' = [vreq EXCEPT ![r] = VRespond(@, 500)]
          /\ UNCHANGED live
  /\ UNCHANGED <<fileRow, versionDisk, versionRows>>
  /\ UNCHANGED <<chunkVars, webhookVars, imageVars, storeVars, queryVars, configVars>>

\* fs.stat and fs.readFile of the live object; md5 of what was read
RestoreVersionStat(r) ==
  /\ vreq[r].pc = "rs_stat"
  /\ LET bytes == live[vreq[r].f] IN
     IF bytes # NoFile
     THEN vreq' = [vreq EXCEPT ![r].size = Len(bytes), ![r].checksum = MD5(bytes),
                               ![r].pc = "rs_update"]
     ELSE vreq' = [vreq EXCEPT ![r] = VRespond(@, 500)]
  /\ UNCHANGED <<live, fileRow, versionDisk, versionRows>>
  /\ UNCHANGED <<chunkVars, webhookVars, imageVars, storeVars, queryVars, configVars>>

\* The File row keeps the checksum it had.
RestoreVersionUpdate_KeepChecksum(r) ==
  /\ vreq[r].pc = "rs_update"
  /\ fileRow' = [fileRow EXCEPT ![vreq[r].f].size = vreq[r].size]
  /\ vreq' = [vreq EXCEPT ![r] = VRespond(@, 200)]
  /\ UNCHANGED <<live, versionDisk, versionRows>>
  /\ UNCHANGED <<chunkVars, webhookVars, imageVars, storeVars, queryVars, configVars>>

\* prisma.file.update({ size, updatedAt, checksum })
RestoreVersionUpdate(r) ==
  /\ vreq[r].pc = "rs_update"
  /\ fileRow' = [fileRow EXCEPT ![vreq[r].f] =
        [size |-> vreq[r].size, checksum |-> vreq[r].checksum]]
  /\ vreq' = [vreq EXCEPT ![r] = VRespond(@, 200)]
  /\ UNCHANGED <<live, versionDisk, versionRows>>
  /\ UNCHANGED <<chunkVars, webhookVars, imageVars, storeVars, queryVars, configVars>>

(***************************************************************************)
(* VersioningService.deleteVersion                                         *)
(***************************************************************************)
DeleteVersionStart(r, f, v) ==
  /\ NextVReq(r)
  /\ vreq' = [vreq EXCEPT ![r] =
        IF ~versioning
        THEN VRespond([IdleVReq EXCEPT !.op = "delete", !.f = f, !.v = v], 400)
        ELSE IF ~FileFound(f) \/ ~\E x \in RowsOf(f) : x.versionNumber = v
        THEN VRespond([IdleVReq EXCEPT !.op = "delete", !.f = f, !.v = v], 404)
        ELSE [IdleVReq EXCEPT !.op = "delete", !.f = f, !.v = v, !.pc = "dv_unlink",
                 !.rowId = (CHOOSE x \in RowsOf(f) : x.versionNumber = v).id]]
  /\ UNCHANGED <<live, fileRow, versionDisk, versionRows>>
  /\ UNCHANGED <<chunkVars, webhookVars, imageVars, storeVars, queryVars, configVars>>

\* fs.unlink(versionedFilePath)
DeleteVersionUnlink(r) ==
  /\ vreq[r].pc = "dv_unlink"
  /\ LET f == vreq[r].f IN
     IF versionDisk[f][vreq[r].v] # NoFile
     THEN /\ versionDisk' = [versionDisk EXCEPT ![f][vreq[r].v] = NoFile]
          /\ vreq' = [vreq EXCEPT ![r].pc = "dv_row"]
     ELSE /\ vreq' = [vreq EXCEPT ![r] = VRespond(@, 500)]
          /\ UNCHANGED versionDisk
  /\ UNCHANGED <<live, fileRow, versionRows>>
  /\ UNCHANGED <<chunkVars, webhookVars, imageVars, storeVars, queryVars, configVars>>

\* prisma.fileVersion.delete({ where: { id: version.id } })
DeleteVersionRow(r) ==
  /\ vreq[r].pc = "dv_row"
  /\ IF \E x \in versionRows : x.id = vreq[r].rowId
     THEN /\ versionRows' = {x \in versionRows : x.id # vreq[r].rowId}
          /\ vreq' = [vreq EXCEPT ![r] = VRespond(@, 200)]
     ELSE /\ vreq' = [vreq EXCEPT ![r] = VRespond(@, 500)]
          /\ UNCHANGED versionRows
  /\ UNCHANGED <<live, fileRow, versionDisk>>
  /\ UNCHANGED <<chunkVars, webhookVars, imageVars, storeVars, queryVars, configVars>>

(***************************************************************************)
(* VersioningService.deleteAllVersions                                     *)
(***************************************************************************)
DeleteAllVersionsStart(r, f) ==
  /\ NextVReq(r)
  /\ vreq' = [vreq EXCEPT ![r] =
        IF ~versioning
        THEN VRespond([IdleVReq EXCEPT !.op = "deleteAll", !.f = f], 400)
        ELSE IF ~FileFound(f)
        THEN VRespond([IdleVReq EXCEPT !.op = "deleteAll", !.f = f], 404)
        ELSE [IdleVReq EXCEPT !.op = "deleteAll", !.f = f, !.pc = "da_rm"]]
  /\ UNCHANGED <<live, fileRow, versionDisk, versionRows>>
  /\ UNCHANGED <<chunkVars, webhookVars, imageVars, storeVars, queryVars, configVars>>

\* fs.rm(versionDir, { recursive: true, force: true })
DeleteAllVersionsRm(r) ==
  /\ vreq[r].pc = "da_rm"
  /\ versionDisk' = [versionDisk EXCEPT ![vreq[r].f] = [n \in VersionNumbers |-> NoFile]]
  /\ vreq' = [vreq EXCEPT ![r].pc = "da_rows"]
  /\ UNCHANGED <<live, fileRow, versionRows>>
  /\ UNCHANGED <<chunkVars, webhookVars, imageVars, storeVars, queryVars, configVars>>

\* prisma.fileVersion.deleteMany({ where: { fileId } })
DeleteAllVersionsRows(r) ==
  /\ vreq[r].pc = "da_rows"
  /\ versionRows' = {x \in versionRows : x.fileId # vreq[r].f}
  /\ vreq' = [vreq EXCEPT ![r] = VRespond(@, 200)]
  /\ UNCHANGED <<live, fileRow, versionDisk>>
  /\ UNCHANGED <<chunkVars, webhookVars, imageVars, storeVars, queryVars, configVars>>

(***************************************************************************)
(* VersioningService.getVersions                                           *)
(***************************************************************************)
\* orderBy: { versionNumber: 'desc' }
RECURSIVE OrderDesc(_)
OrderDesc(S) ==
  IF S = {} THEN <<>>
  ELSE LET m == CHOOSE n \in S : \A k \in S : k <= n IN <<m>> \o OrderDesc(S \ {m})

\* prisma.fileVersion.findMany({ where: { fileId } }); the File table is not
\* consulted.
GetVersions(r, f) ==
  /\ NextVReq(r)
  /\ vreq' = [vreq EXCEPT ![r] =
        IF ~versioning
        THEN VRespond([IdleVReq EXCEPT !.op = "list", !.f = f], 400)
        ELSE [VRespond([IdleVReq EXCEPT !.op = "list", !.f = f], 200)
                EXCEPT !.versions = OrderDesc({x.versionNumber : x \in RowsOf(f)})]]
  /\ UNCHANGED <<live, fileRow, versionDisk, versionRows>>
  /\ UNCHANGED <<chunkVars, webhookVars, imageVars, storeVars, queryVars, configVars>>

(***************************************************************************)
(* VersioningService.getVersion                                            *)
(***************************************************************************)
\* prisma.fileVersion.findFirst({ where: { fileId, versionNumber } })
GetVersionStart(r, f, v) ==
  /\ NextVReq(r)
  /\ vreq' = [vreq EXCEPT ![r] =
        IF ~versioning
        THEN VRespond([IdleVReq EXCEPT !.op = "get", !.f = f, !.v = v], 400)
        ELSE IF ~\E x \in RowsOf(f) : x.versionNumber = v
        THEN VRespond([IdleVReq EXCEPT !.op = "get", !.f = f, !.v = v], 404)
        ELSE [IdleVReq EXCEPT !.op = "get", !.f = f, !.v = v, !.pc = "gv_read"]]
  /\ UNCHANGED <<live, fileRow, versionDisk, versionRows>>
  /\ UNCHANGED <<chunkVars, webhookVars, imageVars, storeVars, queryVars, configVars>>

\* fs.readFile(versionedFilePath); a failed read is answered 404.
GetVersionRead(r) ==
  /\ vreq[r].pc = "gv_read"
  /\ LET bytes == versionDisk[vreq[r].f][vreq[r].v] IN
     vreq' = [vreq EXCEPT ![r] =
        IF bytes = NoFile THEN VRespond(vreq[r], 404)
        ELSE [VRespond(vreq[r], 200) EXCEPT !.buffer = bytes]]
  /\ UNCHANGED <<live, fileRow, versionDisk, versionRows>>
  /\ UNCHANGED <<chunkVars, webhookVars, imageVars, storeVars, queryVars, configVars>>

VersionQuiescent == \A r \in VerReqs : ~VInFlight(r)

(***************************************************************************)
(* Derived-asset pipeline (ImageProcessingService, Bull queue              *)
(* 'image-processing')                                                     *)
(***************************************************************************)
\* predefinedVariants, in the order Object.entries yields them, and the
\* widths they ask for (150, 320, 640, 1280) in units of the model.
PresetOrder == <<"thumbnail", "small", "medium", "large">>
Presets == {PresetOrder[i] : i \in 1..Len(PresetOrder)}
PresetIndex(k) == CHOOSE i \in 1..Len(PresetOrder) : PresetOrder[i] = k
PresetWidth(k) == PresetIndex(k)

\* The preset getPresetVariant is asked for and the worker takes jobs of.
RequestedPresets == {"small"}

ImgReqs == 1..MaxImgReqs

\* file.mimeType of the File rows: the objects of the model are images.
MimeType(f) == "image/png"
IsImage(mimeType) ==
  mimeType \in {"image/jpeg", "image/jpg", "image/png", "image/gif", "image/webp",
                "image/tiff", "image/svg+xml", "image/avif"}

Min(a, b) == IF a <= b THEN a ELSE b

\* sharp(inputBuffer).resize({ width, fit: 'inside', withoutEnlargement:
\* true }).webp().toBuffer(): an image is as wide as it is long, the output
\* keeps at most the width asked for and is never enlarged.
Render(input, k) == SubSeq(input, 1, Min(Len(input), PresetWidth(k)))

\* variantKey of a custom variant: `custom-${nanoid(8)}`.  The keys of
\* different calls differ.
CustomKeyNames == <<"custom-1", "custom-2", "custom-3", "custom-4">>
CustomKeys == {CustomKeyNames[i] : i \in 1..Len(CustomKeyNames)}
VariantKeys == Presets \cup CustomKeys
\* No variantKey made yet.
NoKey == ""

\* VariantOptions.width and .height: undefined, or the number sent.
Undefined == -1
Dimensions == {Undefined, 0, 1, 2}
NoOptions == [width |-> Undefined, height |-> Undefined]

\* resize({ width, height, fit: 'inside', withoutEnlargement: true }) when
\* options.width || options.height, on an image as wide as it is long.
Resize(input, options) ==
  LET w == IF options.width > 0 THEN options.width ELSE Len(input)
      h == IF options.height > 0 THEN options.height ELSE Len(input) IN
  SubSeq(input, 1, Min(Len(input), Min(w, h)))

\* No row found.
NoRow == 0

IdleIReq ==
  [op |-> "none", pc |-> "idle", f |-> 1, key |-> "thumbnail", output |-> <<>>,
   size |-> 0, found |-> FALSE, rowId |-> NoRow, buf |-> <<>>, status |-> 0,
   options |-> NoOptions]

NoCall == [fault |-> "none", returned |-> TRUE, added |-> 0]

\* No deleteAllVariants call is running.
NoDeleteCall == [pc |-> "idle", f |-> 1]

ImageInit ==
  /\ variantDisk = [f \in FileIds |-> [k \in VariantKeys |-> NoFile]]
  /\ variantRows = {}
  /\ imageQueue = [f \in FileIds |-> [k \in Presets |-> 0]]
  /\ ireq = [r \in ImgReqs |-> IdleIReq]
  /\ piv = NoCall
  /\ dav = NoDeleteCall

NextIReq(r) == ireq[r].pc = "idle" /\ \A q \in ImgReqs : q < r => ireq[q].pc # "idle"
IInFlight(r) == ireq[r].pc \notin {"idle", "done"}

\* The request is over; what it held while running is dropped.
IRespond(q, code) ==
  [q EXCEPT !.pc = "done", !.status = code, !.output = <<>>, !.size = 0,
            !.found = FALSE]

\* prisma.imageVariant.findFirst({ where: { fileId, variantKey } })
VariantRowsOf(f, k) == {x \in variantRows : x.fileId = f /\ x.variantKey = k}
FindVariant(f, k) ==
  IF VariantRowsOf(f, k) = {} THEN NoRow
  ELSE (CHOOSE x \in VariantRowsOf(f, k) : TRUE).id

\* A createVariant run that threw: getPresetVariant answers 500, the job of
\* the worker fails (one attempt: imageProcessingQueue.add passes no
\* options).
Thrown(q) == IRespond(q, 500)

(***************************************************************************)
(* ImageProcessingService.getPresetVariant                                 *)
(***************************************************************************)
\* The file lookup, the image test and the lookup of the variant row.
GetPresetVariantStart(r, f, k) ==
  /\ NextIReq(r)
  /\ ireq' = [ireq EXCEPT ![r] =
        IF ~IsImage(MimeType(f))
        THEN IRespond([IdleIReq EXCEPT !.op = "get", !.f = f, !.key = k], 400)
        ELSE IF FindVariant(f, k) # NoRow
        THEN [IdleIReq EXCEPT !.op = "get", !.f = f, !.key = k, !.pc = "g_read",
                              !.rowId = FindVariant(f, k)]
        ELSE [IdleIReq EXCEPT !.op = "get", !.f = f, !.key = k, !.pc = "cv_read"]]
  /\ UNCHANGED <<variantDisk, variantRows, imageQueue, piv, dav>>
  /\ UNCHANGED <<chunkVars, versionVars, webhookVars, storeVars, queryVars, configVars>>

\* A missing file is reported instead of being made again.
GetPresetVariantCached_NoRegenerate(r) ==
  /\ ireq[r].pc = "g_read"
  /\ LET bytes == variantDisk[ireq[r].f][ireq[r].key] IN
     ireq' = [ireq EXCEPT ![r] =
        IF bytes = NoFile THEN IRespond(@, 500)
        ELSE IRespond([@ EXCEPT !.buf = bytes], 200)]
  /\ UNCHANGED <<variantDisk, variantRows, imageQueue, piv, dav>>
  /\ UNCHANGED <<chunkVars, versionVars, webhookVars, storeVars, queryVars, configVars>>

\* The row exists: fs.readFile of the variant; a missing file sends the call
\* on to createVariant.
GetPresetVariantCached(r) ==
  /\ ireq[r].pc = "g_read"
  /\ LET bytes == variantDisk[ireq[r].f][ireq[r].key] IN
     ireq' = [ireq EXCEPT ![r] =
        IF bytes = NoFile THEN [@ EXCEPT !.pc = "cv_read", !.rowId = NoRow]
        ELSE IRespond([@ EXCEPT !.buf = bytes], 200)]
  /\ UNCHANGED <<variantDisk, variantRows, imageQueue, piv, dav>>
  /\ UNCHANGED <<chunkVars, versionVars, webhookVars, storeVars, queryVars, configVars>>

\* After createVariant returned its row: fs.readFile of the variant.
GetPresetVariantRead(r) ==
  /\ ireq[r].pc = "g_read2"
  /\ LET bytes == variantDisk[ireq[r].f][ireq[r].key] IN
     ireq' = [ireq EXCEPT ![r] =
        IF bytes = NoFile THEN IRespond(@, 500)
        ELSE IRespond([@ EXCEPT !.buf = bytes], 200)]
  /\ UNCHANGED <<variantDisk, variantRows, imageQueue, piv, dav>>
  /\ UNCHANGED <<chunkVars, versionVars, webhookVars, storeVars, queryVars, configVars>>

(***************************************************************************)
(* POST /file/:fileId/custom and ImageProcessingService.createCustomVariant *)
(***************************************************************************)
\* createCustomVariantSchema without its refinement.
CreateCustomVariantSchema_NoRefine(w, h) ==
  /\ w = Undefined \/ w > 0
  /\ h = Undefined \/ h > 0

\* createCustomVariantSchema: width and height are optional positive
\* integers, and one of them has to be there.
CreateCustomVariantSchema(w, h) ==
  /\ w = Undefined \/ w > 0
  /\ h = Undefined \/ h > 0
  /\ w # Undefined \/ h # Undefined

\* zValidator('json', createCustomVariantSchema): a body the schema does not
\* accept is answered 400 and the handler is not entered.
CreateCustomVariantRoute(r, f, w, h) ==
  /\ NextIReq(r)
  /\ LET q == [IdleIReq EXCEPT !.op = "custom", !.f = f, !.key = NoKey,
                               !.options = [width |-> w, height |-> h]] IN
     ireq' = [ireq EXCEPT ![r] =
        IF ~CreateCustomVariantSchema(w, h) THEN IRespond(q, 400)
        ELSE [q EXCEPT !.pc = "cc_find"]]
  /\ UNCHANGED <<variantDisk, variantRows, imageQueue, piv, dav>>
  /\ UNCHANGED <<chunkVars, versionVars, webhookVars, storeVars, queryVars, configVars>>

\* !value of a number or undefined
Falsy(value) == value = Undefined \/ value = 0

\* createCustomVariant up to its call of createVariant: the file lookup, the
\* image test, the test of width and height, and the new key.
CreateCustomVariantFind(r) ==
  /\ ireq[r].pc = "cc_find"
  /\ LET q == ireq[r] IN
     ireq' = [ireq EXCEPT ![r] =
        IF ~FileFound(q.f) THEN IRespond(q, 404)
        ELSE IF ~IsImage(MimeType(q.f)) THEN IRespond(q, 400)
        ELSE IF Falsy(q.options.width) /\ Falsy(q.options.height) THEN IRespond(q, 400)
        ELSE [q EXCEPT !.key = CustomKeyNames[r], !.pc = "cv_read"]]
  /\ UNCHANGED <<variantDisk, variantRows, imageQueue, piv, dav>>
  /\ UNCHANGED <<chunkVars, versionVars, webhookVars, storeVars, queryVars, configVars>>

(***************************************************************************)
(* ImageProcessingService.createVariant                                    *)
(***************************************************************************)
\* File lookup, mkdir of the variant directory, fs.readFile of the original
\* and the sharp pipeline up to toBuffer.
CreateVariantRender(r) ==
  /\ ireq[r].pc = "cv_read"
  /\ LET input == live[ireq[r].f] IN
     ireq' = [ireq EXCEPT ![r] =
        IF input = NoFile THEN Thrown(@)
        ELSE [@ EXCEPT !.pc = "cv_open",
                       !.output = IF ireq[r].op = "custom"
                                  THEN Resize(input, ireq[r].options)
                                  ELSE Render(input, ireq[r].key)]]
  /\ UNCHANGED <<variantDisk, variantRows, imageQueue, piv, dav>>
  /\ UNCHANGED <<chunkVars, versionVars, webhookVars, storeVars, queryVars, configVars>>

\* fs.writeFile(variantFilePath, outputBuffer) opens the file with flag 'w':
\* the file is created or cut to length 0.
CreateVariantOpen(r) ==
  /\ ireq[r].pc = "cv_open"
  /\ variantDisk' = [variantDisk EXCEPT ![ireq[r].f][ireq[r].key] = <<>>]
  /\ ireq' = [ireq EXCEPT ![r].pc = "cv_write"]
  /\ UNCHANGED <<variantRows, imageQueue, piv, dav>>
  /\ UNCHANGED <<chunkVars, versionVars, webhookVars, storeVars, queryVars, configVars>>

\* fs.writeFile then writes the buffer from offset 0 and closes the file.
CreateVariantWrite_Skip(r) ==
  /\ ireq[r].pc = "cv_write"
  /\ ireq' = [ireq EXCEPT ![r].pc = "cv_stat"]
  /\ UNCHANGED <<variantDisk, variantRows, imageQueue, piv, dav>>
  /\ UNCHANGED <<chunkVars, versionVars, webhookVars, storeVars, queryVars, configVars>>

CreateVariantWrite(r) ==
  /\ ireq[r].pc = "cv_write"
  /\ variantDisk' = [variantDisk EXCEPT ![ireq[r].f][ireq[r].key] =
        WriteAt(@, 0, ireq[r].output)]
  /\ ireq' = [ireq EXCEPT ![r].pc = "cv_stat"]
  /\ UNCHANGED <<variantRows, imageQueue, piv, dav>>
  /\ UNCHANGED <<chunkVars, versionVars, webhookVars, storeVars, queryVars, configVars>>

\* fs.stat(variantFilePath): the size of what is on disk now.
CreateVariantStat(r) ==
  /\ ireq[r].pc = "cv_stat"
  /\ LET bytes == variantDisk[ireq[r].f][ireq[r].key] IN
     ireq' = [ireq EXCEPT ![r] =
        IF bytes = NoFile THEN Thrown(@)
        ELSE [@ EXCEPT !.pc = "cv_upsert", !.size = Len(bytes)]]
  /\ UNCHANGED <<variantDisk, variantRows, imageQueue, piv, dav>>
  /\ UNCHANGED <<chunkVars, versionVars, webhookVars, storeVars, queryVars, configVars>>

\* The row createVariant writes: width from the metadata of its own output
\* buffer, size from stat, path from fileId and variantKey.
VariantRow(id, q) ==
  [id |-> id, fileId |-> q.f, variantKey |-> q.key, path |-> <<q.f, q.key>>,
   width |-> Len(q.output), size |-> q.size]

\* The rows after the update branch of the upsert for request q.
UpdatedRows(q) ==
  {IF x.fileId = q.f /\ x.variantKey = q.key THEN VariantRow(x.id, q) ELSE x :
      x \in variantRows}

\* What createVariant returned its row to: the worker is done, and
\* getPresetVariant goes on to read the file.
Upserted(q, id) ==
  IF q.op = "job" THEN IRespond([q EXCEPT !.rowId = id], 200)
  ELSE [q EXCEPT !.pc = "g_read2", !.rowId = id, !.output = <<>>, !.size = 0,
                 !.found = FALSE]

\* sharp(outputBuffer).metadata() and prisma.imageVariant.upsert on
\* @@unique([fileId, variantKey]).  The client either hands the database
\* one INSERT ... ON CONFLICT DO UPDATE (native = TRUE), or reads the row
\* first and creates or updates it afterwards.
CreateVariantUpsert_AlwaysCreate(r, native) ==
  /\ ireq[r].pc = "cv_upsert"
  /\ native
  /\ variantRows' = variantRows \cup {VariantRow(r, ireq[r])}
  /\ ireq' = [ireq EXCEPT ![r] = Upserted(@, r)]
  /\ UNCHANGED <<variantDisk, imageQueue, piv, dav>>
  /\ UNCHANGED <<chunkVars, versionVars, webhookVars, storeVars, queryVars, configVars>>

CreateVariantUpsert(r, native) ==
  /\ ireq[r].pc = "cv_upsert"
  /\ LET q == ireq[r]
         id == FindVariant(q.f, q.key) IN
     IF native
     THEN IF id # NoRow
          THEN /\ variantRows' = UpdatedRows(q)
               /\ ireq' = [ireq EXCEPT ![r] = Upserted(@, id)]
          ELSE /\ variantRows' = variantRows \cup {VariantRow(r, q)}
               /\ ireq' = [ireq EXCEPT ![r] = Upserted(@, r)]
     ELSE /\ ireq' = [ireq EXCEPT ![r].pc = "cv_upsert2", ![r].found = (id # NoRow)]
          /\ UNCHANGED variantRows
  /\ UNCHANGED <<variantDisk, imageQueue, piv, dav>>
  /\ UNCHANGED <<chunkVars, versionVars, webhookVars, storeVars, queryVars, configVars>>

\* The second statement of an upsert the client runs itself: the create
\* fails on the unique constraint when the row has appeared meanwhile.
CreateVariantUpsertWrite(r) ==
  /\ ireq[r].pc = "cv_upsert2"
  /\ LET q == ireq[r]
         id == FindVariant(q.f, q.key) IN
     IF q.found /\ id # NoRow
     THEN /\ variantRows' = UpdatedRows(q)
          /\ ireq' = [ireq EXCEPT ![r] = Upserted(@, id)]
     ELSE IF ~q.found /\ id = NoRow
     THEN /\ variantRows' = variantRows \cup {VariantRow(r, q)}
          /\ ireq' = [ireq EXCEPT ![r] = Upserted(@, r)]
     ELSE /\ ireq' = [ireq EXCEPT ![r] = Thrown(@)]
          /\ UNCHANGED variantRows
  /\ UNCHANGED <<variantDisk, imageQueue, piv, dav>>
  /\ UNCHANGED <<chunkVars, versionVars, webhookVars, storeVars, queryVars, configVars>>

(***************************************************************************)
(* ImageProcessingService.processImageVariants and the 'createVariant'     *)
(* worker                                                                  *)
(***************************************************************************)
\* The number of adds that went through: all of them, none when the file
\* lookup rejects, those before the add that rejects.
AddsMade(fault, failedAdd) ==
  IF fault = "lookup" THEN 0
  ELSE IF fault = "add" THEN failedAdd - 1
  ELSE Len(PresetOrder)

\* The catch block of processImageVariants logs and returns.
EnqueueOutcome(fault, failedAdd) ==
  [fault |-> fault, returned |-> TRUE, added |-> AddsMade(fault, failedAdd)]

\* processImageVariants(fileId): one 'createVariant' job per preset.
ProcessImageVariants(f, fault, failedAdd) ==
  /\ IsImage(MimeType(f))
  /\ \A k \in Presets : imageQueue[f][k] < MaxImageJobs
  /\ fault = "add" \/ failedAdd = 1
  /\ imageQueue' = [imageQueue EXCEPT ![f] =
        [k \in Presets |->
            IF PresetIndex(k) <= AddsMade(fault, failedAdd) THEN @[k] + 1 ELSE @[k]]]
  /\ piv' = EnqueueOutcome(fault, failedAdd)
  /\ UNCHANGED <<variantDisk, variantRows, ireq, dav>>
  /\ UNCHANGED <<chunkVars, versionVars, webhookVars, storeVars, queryVars, configVars>>

\* The worker takes a waiting job and enters createVariant.
ImageJobStart(r, f, k) ==
  /\ NextIReq(r)
  /\ imageQueue[f][k] > 0
  /\ imageQueue' = [imageQueue EXCEPT ![f][k] = @ - 1]
  /\ ireq' = [ireq EXCEPT ![r] =
        [IdleIReq EXCEPT !.op = "job", !.f = f, !.key = k, !.pc = "cv_read"]]
  /\ UNCHANGED <<variantDisk, variantRows, piv, dav>>
  /\ UNCHANGED <<chunkVars, versionVars, webhookVars, storeVars, queryVars, configVars>>

(***************************************************************************)
(* ImageProcessingService.deleteAllVariants                                *)
(***************************************************************************)
\* fs.rm(variantDir, { recursive: true, force: true })
DeleteAllVariantsRm(f) ==
  /\ dav.pc = "idle"
  /\ variantDisk' = [variantDisk EXCEPT ![f] = [k \in VariantKeys |-> NoFile]]
  /\ dav' = [pc |-> "rows", f |-> f]
  /\ UNCHANGED <<variantRows, imageQueue, ireq, piv>>
  /\ UNCHANGED <<chunkVars, versionVars, webhookVars, storeVars, queryVars, configVars>>

\* prisma.imageVariant.deleteMany({ where: { fileId } }); when the statement
\* fails the error is logged and the call returns all the same.
DeleteAllVariantsRows(fails) ==
  /\ dav.pc = "rows"
  /\ variantRows' = IF fails THEN variantRows
                    ELSE {x \in variantRows : x.fileId # dav.f}
  /\ dav' = NoDeleteCall
  /\ UNCHANGED <<variantDisk, imageQueue, ireq, piv>>
  /\ UNCHANGED <<chunkVars, versionVars, webhookVars, storeVars, queryVars, configVars>>

ImageQuiescent == \A r \in ImgReqs : ~IInFlight(r)

(***************************************************************************)
(* Content store: single-shot upload and delete (FileController,           *)
(* FileService.saveFile, FileService.deleteFile)                           *)
(***************************************************************************)
\* File names as path.extname and path.basename see them: the stem, then the
\* extension with its dot.
ObjectName == <<"photo", ".png">>
SaveReqs == 1..MaxSaves
\* nanoid(6) draws: one value per call, no two calls draw the same.
NanoIds == 1..MaxSaves

\* path.extname(fileName)
Extname(n) == IF Len(n) > 1 THEN n[Len(n)] ELSE ""

\* path.basename(fileName, fileExt)
Basename(n, ext) ==
  IF ext # "" /\ n[Len(n)] = ext THEN SubSeq(n, 1, Len(n) - 1) ELSE n

\* `${fileNameWithoutExt}-${nanoid(6)}${fileExt}`
Disambiguated(n, id) ==
  LET fileExt == Extname(n)
  IN Basename(n, fileExt) \o <<"-", id>> \o (IF fileExt = "" THEN <<>> ELSE <<fileExt>>)

SaveNames == {ObjectName} \cup {Disambiguated(ObjectName, id) : id \in NanoIds}

IdleSReq ==
  [pc |-> "idle", buf |-> <<>>, name |-> <<>>, size |-> 0, status |-> 0, path |-> <<>>]

StoreInit ==
  /\ renamed = [f \in FileIds |-> 0]
  /\ uploaded = 0
  /\ deleted = 0
  /\ suffixed = [id \in NanoIds |-> NoFile]
  /\ nano = 0
  /\ sreq = [r \in SaveReqs |-> IdleSReq]

\* FileController.uploadFile: saveFile writes the buffer at the path of
\* object f, or under a name with a nanoid(6) suffix when the path is taken,
\* and the handler answers 201.
UploadFile(f, b) ==
  /\ uploaded < MaxUploads
  /\ IF live[f] = NoFile
     THEN live' = [live EXCEPT ![f] = b] /\ UNCHANGED renamed
     ELSE renamed' = [renamed EXCEPT ![f] = @ + 1] /\ UNCHANGED live
  /\ uploaded' = uploaded + 1
  /\ UNCHANGED <<deleted, suffixed, nano, sreq>>
  /\ UNCHANGED <<fileRow, versionDisk, versionRows, vreq>>
  /\ UNCHANGED <<chunkVars, webhookVars, imageVars, queryVars, configVars>>

\* FileController.deleteFile: deleteFile unlinks the object and the handler
\* answers 200; a path that does not exist is a 404.
DeleteFile(f) ==
  /\ deleted < MaxUploads
  /\ live[f] # NoFile
  /\ live' = [live EXCEPT ![f] = NoFile]
  /\ deleted' = deleted + 1
  /\ UNCHANGED <<renamed, uploaded, suffixed, nano, sreq>>
  /\ UNCHANGED <<fileRow, versionDisk, versionRows, vreq>>
  /\ UNCHANGED <<chunkVars, webhookVars, imageVars, queryVars, configVars>>

(***************************************************************************)
(* FileService.saveFile, cut at its awaits: the fileExists test, then      *)
(* fs.writeFile (open with flag 'w', write, close), then fs.stat           *)
(***************************************************************************)
NextSReq(r) == sreq[r].pc = "idle" /\ \A q \in SaveReqs : q < r => sreq[q].pc # "idle"
SInFlight(r) == sreq[r].pc \notin {"idle", "done"}

\* The bytes on disk under a name of the target directory.
DiskAt(n) == IF n = ObjectName THEN live[1] ELSE suffixed[n[Len(n) - 1]]

\* await this.fileExists(path.join(filePath, finalFileName)), and the choice
\* of finalFileName that follows it.
SaveFileCheck(r, b) ==
  /\ NextSReq(r)
  /\ IF DiskAt(ObjectName) # NoFile
     THEN /\ nano' = nano + 1
          /\ sreq' = [sreq EXCEPT ![r] =
                [IdleSReq EXCEPT !.pc = "open", !.buf = b,
                                 !.name = Disambiguated(ObjectName, nano + 1)]]
     ELSE /\ sreq' = [sreq EXCEPT ![r] =
                [IdleSReq EXCEPT !.pc = "open", !.buf = b, !.name = ObjectName]]
          /\ UNCHANGED nano
  /\ UNCHANGED <<suffixed, renamed, uploaded, deleted>>
  /\ UNCHANGED <<chunkVars, versionVars, webhookVars, imageVars, queryVars, configVars>>

\* The disk after the file under name n was replaced by bytes.
PutAt(n, bytes) ==
  /\ IF n = ObjectName
     THEN live' = [live EXCEPT ![1] = bytes] /\ UNCHANGED suffixed
     ELSE suffixed' = [suffixed EXCEPT ![n[Len(n) - 1]] = bytes] /\ UNCHANGED live

\* fs.writeFile opens the path with flag 'w': the file is created, or cut to
\* length 0 when it exists.
SaveFileOpen(r) ==
  /\ sreq[r].pc = "open"
  /\ PutAt(sreq[r].name, <<>>)
  /\ sreq' = [sreq EXCEPT ![r].pc = "write"]
  /\ UNCHANGED <<nano, renamed, uploaded, deleted>>
  /\ UNCHANGED <<fileRow, versionDisk, versionRows, vreq>>
  /\ UNCHANGED <<chunkVars, webhookVars, imageVars, queryVars, configVars>>

\* fs.writeFile writes the buffer from offset 0 and closes.
SaveFileWrite(r) ==
  /\ sreq[r].pc = "write"
  /\ PutAt(sreq[r].name, WriteAt(DiskAt(sreq[r].name), 0, sreq[r].buf))
  /\ sreq' = [sreq EXCEPT ![r].pc = "stat"]
  /\ UNCHANGED <<nano, renamed, uploaded, deleted>>
  /\ UNCHANGED <<fileRow, versionDisk, versionRows, vreq>>
  /\ UNCHANGED <<chunkVars, webhookVars, imageVars, queryVars, configVars>>

\* fsPromises.stat of the file written, and the metadata returned: name and
\* path are those of finalFileName.
SaveFileStat(r) ==
  /\ sreq[r].pc = "stat"
  /\ sreq' = [sreq EXCEPT ![r].pc = "done", ![r].status = 201,
                          ![r].size = Len(DiskAt(sreq[r].name)),
                          ![r].path = sreq[r].name]
  /\ UNCHANGED <<nano, suffixed, renamed, uploaded, deleted>>
  /\ UNCHANGED <<chunkVars, versionVars, webhookVars, imageVars, queryVars, configVars>>

(***************************************************************************)
(* FileController.getFile: FileService.getFileMetadataAndRange, then       *)
(* FileService.createFileStream once the headers are out                   *)
(***************************************************************************)
\* Objects of 1, 2 and 3 bytes.
ReadContents == Contents \cup {<<3, 2, 1>>}
Offsets == 0..MaxOffset

\* Decimal digits, as characters and as numbers.
DigitChar == [n \in 0..9 |-> CASE n = 0 -> "0" [] n = 1 -> "1" [] n = 2 -> "2"
                               [] n = 3 -> "3" [] n = 4 -> "4" [] n = 5 -> "5"
                               [] n = 6 -> "6" [] n = 7 -> "7" [] n = 8 -> "8"
                               [] OTHER -> "9"]

\* String(n), template-literal formatting of a number of one digit.
DecimalString(n) == IF n < 0 THEN <<"-", DigitChar[0 - n]>> ELSE <<DigitChar[n]>>

\* parseInt(s, 10) of a one-digit string.
ParseInt(str) == CHOOSE n \in 0..9 : DigitChar[n] = str[1]

\* The Range headers sent: none, 'bytes=<start>-<end>' and 'bytes=<start>-'.
NoRange == <<>>
ClosedRange(start, end) == <<"bytes=">> \o DecimalString(start) \o <<"-">> \o DecimalString(end)
OpenRange(start) == <<"bytes=">> \o DecimalString(start) \o <<"-">>
RangeHeaders ==
  {NoRange} \cup {OpenRange(a) : a \in Offsets}
            \cup {ClosedRange(a, b) : a \in Offsets, b \in Offsets}

\* range.replace(/bytes=/, '')
StripUnit(h) == IF h # <<>> /\ h[1] = "bytes=" THEN Tail(h) ELSE h

\* String.prototype.split('-')
RECURSIVE SplitDash(_)
SplitDash(str) ==
  IF str = <<>> THEN << <<>> >>
  ELSE LET rest == SplitDash(Tail(str)) IN
       IF Head(str) = "-" THEN << <<>> >> \o rest
       ELSE << <<Head(str)>> \o rest[1] >> \o Tail(rest)

\* The range validation compares start and end with the size only.
RangeSatisfiable(start, end, size) == ~(start >= size \/ end >= size)

\* `bytes ${rangeInfo.start}-${rangeInfo.end}/${rangeInfo.length}`
ContentRange(start, end, length) ==
  <<"bytes ">> \o DecimalString(start) \o <<"-">> \o DecimalString(end)
               \o <<"/">> \o DecimalString(length)

\* fs.createReadStream(fullPath, { start, end }): both ends inclusive, the
\* read stops at the end of the file; start > end is a RangeError
\* (ERR_OUT_OF_RANGE) thrown by the constructor.
ReadStreamThrows(file, start, end) == file = NoFile \/ start > end
ReadStream(file, start, end) ==
  IF ReadStreamThrows(file, start, end) THEN <<>>
  ELSE SubSeq(file, start + 1, Min(end + 1, Len(file)))

\* The last getFile call; object is, for the properties, the bytes the call
\* found on disk.
NoFileCall ==
  [pc |-> "idle", f |-> 1, header |-> NoRange, object |-> NoFile, size |-> 0, start |-> 0, end |-> 0,
   status |-> 0, contentRange |-> <<>>, contentLength |-> <<>>, body |-> <<>>,
   streamError |-> FALSE]

\* No compareVersions call made yet.
NoCmpCall ==
  [f |-> 1, a |-> 0, b |-> 0, status |-> 0, differentBytes |-> 0, totalBytes |-> 0,
   differencePercentage |-> [nan |-> FALSE, num |-> 0, den |-> 1], readBytes |-> FALSE]

QueryInit == fileCall = NoFileCall /\ cmpCall = NoCmpCall

\* features.versioning: process.env.ENABLE_VERSIONING === 'true'.
ConfigInit == versioning = TRUE

\* getFileMetadataAndRange and the Response built from its result.
GetFileMetadata(f, h) ==
  /\ fileCall.pc # "stream"
  /\ LET file == live[f]
         size == Len(file)
         parts == SplitDash(StripUnit(h))
         start == ParseInt(parts[1])
         end == IF parts[2] # <<>> THEN ParseInt(parts[2]) ELSE size - 1
         call == [NoFileCall EXCEPT !.f = f, !.header = h, !.object = file] IN
     fileCall' =
       IF file = NoFile THEN [call EXCEPT !.pc = "done", !.status = 404]
       ELSE IF h = NoRange
       THEN [call EXCEPT !.pc = "stream", !.size = size, !.end = size - 1,
                         !.status = 200, !.contentLength = DecimalString(size)]
       ELSE IF ~RangeSatisfiable(start, end, size)
       THEN [call EXCEPT !.pc = "done", !.size = size, !.status = 416]
       ELSE [call EXCEPT !.pc = "stream", !.size = size, !.start = start, !.end = end,
                         !.status = 206,
                         !.contentRange = ContentRange(start, end, size),
                         !.contentLength = DecimalString(end - start + 1)]
  /\ UNCHANGED cmpCall
  /\ UNCHANGED <<chunkVars, versionVars, webhookVars, imageVars, storeVars, configVars>>

\* The body of the Response: createFileStream(path, start, end) piped into
\* the ReadableStream; without a Range header the whole file is read.
GetFileStream ==
  /\ fileCall.pc = "stream"
  /\ LET file == live[fileCall.f] IN
     fileCall' = [fileCall EXCEPT
        !.pc = "done",
        !.body = ReadStream(file, fileCall.start, fileCall.end),
        !.streamError = ReadStreamThrows(file, fileCall.start, fileCall.end)]
  /\ UNCHANGED cmpCall
  /\ UNCHANGED <<chunkVars, versionVars, webhookVars, imageVars, storeVars, configVars>>

(***************************************************************************)
(* VersioningService.compareVersions                                       *)
(***************************************************************************)
\* The column checksum is nullable (checksum String?).
NoChecksum == 0

\* Version contents compared: an empty one, and two of different lengths
\* that differ in their first byte.
VersionBytes == {<<>>, <<1>>, <<2, 1>>}

\* A FileVersion row for the bytes of a slot, with or without its checksum.
StoredVersion(f, n, bytes, withChecksum) ==
  [id |-> n, fileId |-> f, versionNumber |-> n, size |-> Len(bytes),
   checksum |-> IF withChecksum THEN MD5(bytes) ELSE NoChecksum]

\* prisma.fileVersion.findFirst({ where: { fileId, versionNumber } })
VersionRow(f, n) ==
  IF \E x \in RowsOf(f) : x.versionNumber = n
  THEN {CHOOSE x \in RowsOf(f) : x.versionNumber = n} ELSE {}

\* The number i-th byte, counted from 0, of a buffer; undefined past its end.
\* for (i = 0; i < maxLength; i++)
\*   if (i >= bufferA.length || i >= bufferB.length || bufferA[i] !== bufferB[i])
DifferentBytes_Common(bufferA, bufferB) ==
  Cardinality({i \in 0..(Min(Len(bufferA), Len(bufferB)) - 1) : bufferA[i + 1] # bufferB[i + 1]})

DifferentBytes(bufferA, bufferB) ==
  Cardinality({i \in 0..(Max(Len(bufferA), Len(bufferB)) - 1) :
                  \/ i >= Len(bufferA)
                  \/ i >= Len(bufferB)
                  \/ bufferA[i + 1] # bufferB[i + 1]})

\* (differentBytes / maxLength) * 100 in floating point: kept as a fraction,
\* and 0 / 0 is NaN.
DifferencePercentage(differentBytes, maxLength) ==
  [nan |-> (differentBytes = 0 /\ maxLength = 0),
   num |-> 100 * differentBytes, den |-> maxLength]

\* The result of compareVersions(f, a, b) on the rows and slots as they are.
CompareResult(f, a, b) ==
  LET call == [NoCmpCall EXCEPT !.f = f, !.a = a, !.b = b] IN
  IF ~versioning
  THEN [call EXCEPT !.status = 400]
  ELSE IF VersionRow(f, a) = {} \/ VersionRow(f, b) = {}
  THEN [call EXCEPT !.status = 404]
  ELSE LET versionAData == CHOOSE x \in VersionRow(f, a) : TRUE
           versionBData == CHOOSE x \in VersionRow(f, b) : TRUE
           bufferA == versionDisk[f][a]
           bufferB == versionDisk[f][b]
           maxLength == Max(Len(bufferA), Len(bufferB)) IN
       IF versionAData.checksum # NoChecksum /\ versionBData.checksum # NoChecksum
            /\ versionAData.checksum = versionBData.checksum
       THEN [call EXCEPT !.status = 200, !.totalBytes = versionAData.size]
       ELSE IF bufferA = NoFile \/ bufferB = NoFile
       THEN [call EXCEPT !.status = 500, !.readBytes = TRUE]
       ELSE [call EXCEPT !.status = 200, !.readBytes = TRUE,
                         !.differentBytes = DifferentBytes(bufferA, bufferB),
                         !.totalBytes = maxLength,
                         !.differencePercentage =
                            DifferencePercentage(DifferentBytes(bufferA, bufferB), maxLength)]

CompareVersions(f, a, b) ==
  /\ cmpCall' = CompareResult(f, a, b)
  /\ UNCHANGED fileCall
  /\ UNCHANGED <<chunkVars, versionVars, webhookVars, imageVars, storeVars, configVars>>

(***************************************************************************)
(* Specifications                                                          *)
(***************************************************************************)
Init ==
  ChunkInit /\ VersionInit /\ WebhookInitEmpty /\ ImageInit /\ StoreInit /\ QueryInit /\ ConfigInit
InitWebhooks ==
  ChunkInit /\ VersionInit /\ WebhookInit /\ ImageInit /\ StoreInit /\ QueryInit /\ ConfigInit

\* Requests of the chunk routes run concurrently.
ChunkNext ==
  \/ \E s \in SessionIds, n \in TotalChunkChoices, p \in Paths : InitChunkedUpload(s, n, p)
  \/ \E r \in ChunkReqs, s \in SessionIds, idx \in ChunkIdx, buf \in ChunkBuffers :
        UploadChunkStart(r, s, idx, buf)
  \/ \E r \in ChunkReqs, s \in SessionIds : FinalizeStart(r, s)
  \/ \E r \in ChunkReqs : UploadChunkWrite(r)
  \/ \E r \in ChunkReqs : UploadChunkCount(r)
  \/ \E r \in ChunkReqs : FinalizeOpen(r)
  \/ \E r \in ChunkReqs : FinalizeRead(r)
  \/ \E r \in ChunkReqs : FinalizeWrite(r)
  \/ \E r \in ChunkReqs : FinalizeClose(r)

\* One request at a time: a call is made only when no other is in flight.
ChunkSeqNext ==
  \/ \E s \in SessionIds, n \in TotalChunkChoices, p \in Paths :
        ChunkQuiescent /\ InitChunkedUpload(s, n, p)
  \/ \E r \in ChunkReqs, s \in SessionIds, idx \in ChunkIdx, buf \in ChunkBuffers :
        ChunkQuiescent /\ UploadChunkStart(r, s, idx, buf)
  \/ \E r \in ChunkReqs, s \in SessionIds : ChunkQuiescent /\ FinalizeStart(r, s)
  \/ \E r \in ChunkReqs : UploadChunkWrite(r)
  \/ \E r \in ChunkReqs : UploadChunkCount(r)
  \/ \E r \in ChunkReqs : FinalizeOpen(r)
  \/ \E r \in ChunkReqs : FinalizeRead(r)
  \/ \E r \in ChunkReqs : FinalizeWrite(r)
  \/ \E r \in ChunkReqs : FinalizeClose(r)

\* Requests of the version routes run concurrently, and the live object is
\* rewritten at any time.
VersionNext ==
  \/ \E f \in FileIds, b \in Contents : OverwriteObject(f, b)
  \/ \E r \in VerReqs, f \in FileIds : CreateVersionStart(r, f)
  \/ \E r \in VerReqs, f \in FileIds, v \in VersionNumbers : RestoreVersionStart(r, f, v)
  \/ \E r \in VerReqs, f \in FileIds, v \in VersionNumbers : DeleteVersionStart(r, f, v)
  \/ \E r \in VerReqs, f \in FileIds : DeleteAllVersionsStart(r, f)
  \/ \E r \in VerReqs : CreateVersionFind(r)
  \/ \E r \in VerReqs : CreateVersionCopy(r)
  \/ \E r \in VerReqs : CreateVersionStat(r)
  \/ \E r \in VerReqs : CreateVersionRow(r, "none", 1)
  \/ \E r \in VerReqs : RestoreVersionCopy(r)
  \/ \E r \in VerReqs : RestoreVersionStat(r)
  \/ \E r \in VerReqs : RestoreVersionUpdate(r)
  \/ \E r \in VerReqs : DeleteVersionUnlink(r)
  \/ \E r \in VerReqs : DeleteVersionRow(r)
  \/ \E r \in VerReqs : DeleteAllVersionsRm(r)
  \/ \E r \in VerReqs : DeleteAllVersionsRows(r)

\* One call at a time, and no rewrite of the live object during a call.
VersionSeqNext ==
  \/ \E f \in FileIds, b \in Contents : VersionQuiescent /\ OverwriteObject(f, b)
  \/ \E r \in VerReqs, f \in FileIds : VersionQuiescent /\ CreateVersionStart(r, f)
  \/ \E r \in VerReqs, f \in FileIds, v \in VersionNumbers :
        VersionQuiescent /\ RestoreVersionStart(r, f, v)
  \/ \E r \in VerReqs, f \in FileIds, v \in VersionNumbers :
        VersionQuiescent /\ DeleteVersionStart(r, f, v)
  \/ \E r \in VerReqs, f \in FileIds : VersionQuiescent /\ DeleteAllVersionsStart(r, f)
  \/ \E r \in VerReqs : CreateVersionFind(r)
  \/ \E r \in VerReqs : CreateVersionCopy(r)
  \/ \E r \in VerReqs : CreateVersionStat(r)
  \/ \E r \in VerReqs : CreateVersionRow(r, "none", 1)
  \/ \E r \in VerReqs : RestoreVersionCopy(r)
  \/ \E r \in VerReqs : RestoreVersionStat(r)
  \/ \E r \in VerReqs : RestoreVersionUpdate(r)
  \/ \E r \in VerReqs : DeleteVersionUnlink(r)
  \/ \E r \in VerReqs : DeleteVersionRow(r)
  \/ \E r \in VerReqs : DeleteAllVersionsRm(r)
  \/ \E r \in VerReqs : DeleteAllVersionsRows(r)

\* Events are triggered, webhooks are switched and deleted, and the worker
\* takes jobs from the queue.
WebhookNext ==
  \/ \E e \in EventTypes, fault \in TriggerFaults, failedAdd \in WebhookIds :
        TriggerEvent(e, fault, failedAdd)
  \/ \E w \in WebhookIds, a \in BOOLEAN : UpdateWebhook(w, a)
  \/ \E w \in WebhookIds : DeleteWebhook(w)
  \/ \E j \in JobIds, resp \in Responses : ProcessJob(j, resp)

\* getPresetVariant calls and worker runs interleave; the original is
\* rewritten only between them.
ImageNext ==
  \/ \E f \in FileIds, b \in Contents : ImageQuiescent /\ OverwriteObject(f, b)
  \/ \E f \in FileIds : ProcessImageVariants(f, "none", 1)
  \/ \E r \in ImgReqs, f \in FileIds, k \in RequestedPresets : GetPresetVariantStart(r, f, k)
  \/ \E r \in ImgReqs, f \in FileIds, k \in RequestedPresets : ImageJobStart(r, f, k)
  \/ \E r \in ImgReqs : GetPresetVariantCached(r)
  \/ \E r \in ImgReqs : GetPresetVariantRead(r)
  \/ \E r \in ImgReqs : CreateVariantRender(r)
  \/ \E r \in ImgReqs : CreateVariantOpen(r)
  \/ \E r \in ImgReqs : CreateVariantWrite(r)
  \/ \E r \in ImgReqs : CreateVariantStat(r)
  \/ \E r \in ImgReqs, native \in BOOLEAN : CreateVariantUpsert(r, native)
  \/ \E r \in ImgReqs : CreateVariantUpsertWrite(r)

\* One getPresetVariant call or worker run at a time.
ImageSeqNext ==
  \/ \E f \in FileIds, b \in Contents : ImageQuiescent /\ OverwriteObject(f, b)
  \/ \E f \in FileIds : ImageQuiescent /\ ProcessImageVariants(f, "none", 1)
  \/ \E r \in ImgReqs, f \in FileIds, k \in Presets :
        ImageQuiescent /\ GetPresetVariantStart(r, f, k)
  \/ \E r \in ImgReqs, f \in FileIds, k \in Presets :
        ImageQuiescent /\ ImageJobStart(r, f, k)
  \/ \E r \in ImgReqs : GetPresetVariantCached(r)
  \/ \E r \in ImgReqs : GetPresetVariantRead(r)
  \/ \E r \in ImgReqs : CreateVariantRender(r)
  \/ \E r \in ImgReqs : CreateVariantOpen(r)
  \/ \E r \in ImgReqs : CreateVariantWrite(r)
  \/ \E r \in ImgReqs : CreateVariantStat(r)
  \/ \E r \in ImgReqs, native \in BOOLEAN : CreateVariantUpsert(r, native)
  \/ \E r \in ImgReqs : CreateVariantUpsertWrite(r)

\* The calls that reach triggerEvent and processImageVariants, under every
\* fault that can strike inside them: createVersion calls made one at a time,
\* direct triggers, and the enqueue of the preset jobs of an image.
TriggerNext ==
  \/ \E r \in VerReqs, f \in FileIds : VersionQuiescent /\ CreateVersionStart(r, f)
  \/ \E r \in VerReqs : CreateVersionFind(r)
  \/ \E r \in VerReqs : CreateVersionCopy(r)
  \/ \E r \in VerReqs : CreateVersionStat(r)
  \/ \E r \in VerReqs, fault \in TriggerFaults, failedAdd \in WebhookIds :
        CreateVersionRow(r, fault, failedAdd)
  \/ \E e \in EventTypes, fault \in TriggerFaults, failedAdd \in WebhookIds :
        TriggerEvent(e, fault, failedAdd)
  \/ \E f \in FileIds, fault \in TriggerFaults, failedAdd \in 1..Len(PresetOrder) :
        ProcessImageVariants(f, fault, failedAdd)

\* The file routes next to the version store and the variant route: objects
\* are uploaded and deleted at any time, createVersion and getPresetVariant
\* calls are made one at a time.
StoreNext ==
  \/ \E f \in FileIds, b \in Contents : UploadFile(f, b)
  \/ \E f \in FileIds : DeleteFile(f)
  \/ \E r \in VerReqs, f \in FileIds : VersionQuiescent /\ CreateVersionStart(r, f)
  \/ \E r \in VerReqs : CreateVersionFind(r)
  \/ \E r \in VerReqs : CreateVersionCopy(r)
  \/ \E r \in VerReqs : CreateVersionStat(r)
  \/ \E r \in VerReqs : CreateVersionRow(r, "none", 1)
  \/ \E r \in ImgReqs, f \in FileIds, k \in RequestedPresets :
        ImageQuiescent /\ GetPresetVariantStart(r, f, k)
  \/ \E r \in ImgReqs : GetPresetVariantCached(r)
  \/ \E r \in ImgReqs : GetPresetVariantRead(r)
  \/ \E r \in ImgReqs : CreateVariantRender(r)
  \/ \E r \in ImgReqs : CreateVariantOpen(r)
  \/ \E r \in ImgReqs : CreateVariantWrite(r)
  \/ \E r \in ImgReqs : CreateVariantStat(r)
  \/ \E r \in ImgReqs, native \in BOOLEAN : CreateVariantUpsert(r, native)
  \/ \E r \in ImgReqs : CreateVariantUpsertWrite(r)

\* saveFile calls for one name run concurrently.
SaveNext ==
  \/ \E r \in SaveReqs, b \in Contents : SaveFileCheck(r, b)
  \/ \E r \in SaveReqs : SaveFileOpen(r)
  \/ \E r \in SaveReqs : SaveFileWrite(r)
  \/ \E r \in SaveReqs : SaveFileStat(r)

\* The target directory before the first upload: no object, no File row
\* content, no version.
InitNoObject ==
  /\ ChunkInit /\ WebhookInitEmpty /\ ImageInit /\ StoreInit /\ QueryInit /\ ConfigInit
  /\ live = [f \in FileIds |-> NoFile]
  /\ fileRow = [f \in FileIds |-> [size |-> 0, checksum |-> MD5(<<>>)]]
  /\ versionDisk = [f \in FileIds |-> [n \in VersionNumbers |-> NoFile]]
  /\ versionRows = {}
  /\ vreq = [r \in VerReqs |-> IdleVReq]

\* Downloads of an object, one at a time; the object is rewritten between
\* them.
ReadNext ==
  \/ \E f \in FileIds, b \in ReadContents :
        fileCall.pc # "stream" /\ OverwriteObject(f, b)
  \/ \E f \in FileIds, h \in RangeHeaders : GetFileMetadata(f, h)
  \/ GetFileStream

SpecRead == Init /\ [][ReadNext]_vars

\* A version store that holds versions 1 and 2 of the object, each with any
\* of the contents compared, its row with or without a checksum.
InitCompare ==
  /\ ChunkInit /\ WebhookInitEmpty /\ ImageInit /\ StoreInit /\ QueryInit /\ ConfigInit
  /\ live = [f \in FileIds |-> <<1>>]
  /\ fileRow = [f \in FileIds |-> [size |-> Len(live[f]), checksum |-> MD5(live[f])]]
  /\ vreq = [r \in VerReqs |-> IdleVReq]
  /\ \E b1 \in VersionBytes, b2 \in VersionBytes, c1 \in BOOLEAN, c2 \in BOOLEAN :
        /\ versionDisk = [f \in FileIds |-> [n \in VersionNumbers |->
                             IF n = 1 THEN b1 ELSE IF n = 2 THEN b2 ELSE NoFile]]
        /\ versionRows = {StoredVersion(f, 1, b1, c1) : f \in FileIds}
                            \cup {StoredVersion(f, 2, b2, c2) : f \in FileIds}

\* compareVersions calls on that store.
CompareNext ==
  \E f \in FileIds, a \in VersionNumbers, b \in VersionNumbers : CompareVersions(f, a, b)

\* Deployments with and without ENABLE_VERSIONING.
InitFeatures ==
  /\ ChunkInit /\ VersionInit /\ WebhookInitEmpty /\ ImageInit /\ StoreInit /\ QueryInit
  /\ versioning \in BOOLEAN

\* Every operation of the versioning service, one call at a time, on file ids
\* with and without a File row.
\* The calls made on one deployment, and the version numbers they ask for: the
\* first version ever made and one that is never made.
FeatureCalls == 1..MaxFeatureCalls
AskedVersions == {1, MaxFeatureCalls + 1}

FeatureNext ==
  \/ \E r \in FeatureCalls, f \in RequestedFileIds : VersionQuiescent /\ CreateVersionStart(r, f)
  \/ \E r \in FeatureCalls, f \in RequestedFileIds : VersionQuiescent /\ GetVersions(r, f)
  \/ \E r \in FeatureCalls, f \in RequestedFileIds, v \in AskedVersions :
        VersionQuiescent /\ GetVersionStart(r, f, v)
  \/ \E r \in FeatureCalls, f \in RequestedFileIds, v \in AskedVersions :
        VersionQuiescent /\ RestoreVersionStart(r, f, v)
  \/ \E r \in FeatureCalls, f \in RequestedFileIds, v \in AskedVersions :
        VersionQuiescent /\ DeleteVersionStart(r, f, v)
  \/ \E r \in FeatureCalls, f \in RequestedFileIds : VersionQuiescent /\ DeleteAllVersionsStart(r, f)
  \/ \E f \in RequestedFileIds, a \in AskedVersions, b \in AskedVersions :
        VersionQuiescent /\ CompareVersions(f, a, b)
  \/ \E r \in FeatureCalls : GetVersionRead(r)
  \/ \E r \in FeatureCalls : CreateVersionFind(r)
  \/ \E r \in FeatureCalls : CreateVersionCopy(r)
  \/ \E r \in FeatureCalls : CreateVersionStat(r)
  \/ \E r \in FeatureCalls : CreateVersionRow(r, "none", 1)
  \/ \E r \in FeatureCalls : RestoreVersionCopy(r)
  \/ \E r \in FeatureCalls : RestoreVersionStat(r)
  \/ \E r \in FeatureCalls : RestoreVersionUpdate(r)
  \/ \E r \in FeatureCalls : DeleteVersionUnlink(r)
  \/ \E r \in FeatureCalls : DeleteVersionRow(r)
  \/ \E r \in FeatureCalls : DeleteAllVersionsRm(r)
  \/ \E r \in FeatureCalls : DeleteAllVersionsRows(r)

\* getPresetVariant calls and deleteAllVariants calls, one at a time, on an
\* object that is rewritten between them.
CacheQuiescent == ImageQuiescent /\ dav.pc = "idle"

CacheNext ==
  \/ \E f \in FileIds, b \in Contents : CacheQuiescent /\ OverwriteObject(f, b)
  \/ \E r \in ImgReqs, f \in FileIds, k \in RequestedPresets :
        CacheQuiescent /\ GetPresetVariantStart(r, f, k)
  \/ \E f \in FileIds : CacheQuiescent /\ DeleteAllVariantsRm(f)
  \/ \E fails \in BOOLEAN : DeleteAllVariantsRows(fails)
  \/ \E r \in ImgReqs : GetPresetVariantCached(r)
  \/ \E r \in ImgReqs : GetPresetVariantRead(r)
  \/ \E r \in ImgReqs : CreateVariantRender(r)
  \/ \E r \in ImgReqs : CreateVariantOpen(r)
  \/ \E r \in ImgReqs : CreateVariantWrite(r)
  \/ \E r \in ImgReqs : CreateVariantStat(r)
  \/ \E r \in ImgReqs, native \in BOOLEAN : CreateVariantUpsert(r, native)
  \/ \E r \in ImgReqs : CreateVariantUpsertWrite(r)

\* Custom-variant requests, one at a time, for file ids with and without a
\* File row and every combination of width and height.
CustomNext ==
  \/ \E r \in ImgReqs, f \in RequestedFileIds, w \in Dimensions, h \in Dimensions :
        ImageQuiescent /\ CreateCustomVariantRoute(r, f, w, h)
  \/ \E r \in ImgReqs : CreateCustomVariantFind(r)
  \/ \E r \in ImgReqs : CreateVariantRender(r)
  \/ \E r \in ImgReqs : CreateVariantOpen(r)
  \/ \E r \in ImgReqs : CreateVariantWrite(r)
  \/ \E r \in ImgReqs : CreateVariantStat(r)
  \/ \E r \in ImgReqs, native \in BOOLEAN : CreateVariantUpsert(r, native)
  \/ \E r \in ImgReqs : CreateVariantUpsertWrite(r)
  \/ \E r \in ImgReqs : GetPresetVariantRead(r)

\* A second image, whose "small" variant was made earlier.
OtherFileId == 3
VariantOwners == FileIds \cup {OtherFileId}
OtherVariant ==
  [id |-> MaxImgReqs + 1, fileId |-> OtherFileId, variantKey |-> "small",
   path |-> <<OtherFileId, "small">>, width |-> 1, size |-> 1]

InitVariants ==
  /\ ChunkInit /\ VersionInit /\ WebhookInitEmpty /\ StoreInit /\ QueryInit /\ ConfigInit
  /\ variantDisk = [f \in VariantOwners |-> [k \in VariantKeys |->
                       IF f = OtherFileId /\ k = "small" THEN <<1>> ELSE NoFile]]
  /\ variantRows = {OtherVariant}
  /\ imageQueue = [f \in FileIds |-> [k \in Presets |-> 0]]
  /\ ireq = [r \in ImgReqs |-> IdleIReq]
  /\ piv = NoCall
  /\ dav = NoDeleteCall

\* getPresetVariant calls on one image and deleteAllVariants calls on either,
\* one at a time.
PurgeNext ==
  \/ \E r \in ImgReqs, f \in FileIds, k \in RequestedPresets :
        CacheQuiescent /\ GetPresetVariantStart(r, f, k)
  \/ \E f \in VariantOwners : CacheQuiescent /\ DeleteAllVariantsRm(f)
  \/ \E fails \in BOOLEAN : DeleteAllVariantsRows(fails)
  \/ \E r \in ImgReqs : GetPresetVariantCached(r)
  \/ \E r \in ImgReqs : GetPresetVariantRead(r)
  \/ \E r \in ImgReqs : CreateVariantRender(r)
  \/ \E r \in ImgReqs : CreateVariantOpen(r)
  \/ \E r \in ImgReqs : CreateVariantWrite(r)
  \/ \E r \in ImgReqs : CreateVariantStat(r)
  \/ \E r \in ImgReqs, native \in BOOLEAN : CreateVariantUpsert(r, native)
  \/ \E r \in ImgReqs : CreateVariantUpsertWrite(r)

\* An object uploaded earlier (saveFile) already sits at the target path of
\* the session to come.
ExistingObject == <<2, 2, 2>>
InitOccupied ==
  /\ chunkUploadSessions = {}
  /\ sessionObj = [s \in SessionIds |-> NoSession]
  /\ tmpDir = [s \in SessionIds |-> FALSE]
  /\ slot = [s \in SessionIds |-> [i \in ChunkIdx |-> NoFile]]
  /\ store = [p \in Paths |-> ExistingObject]
  /\ creq = [r \in ChunkReqs |-> IdleReq]
  /\ VersionInit /\ WebhookInitEmpty /\ ImageInit /\ StoreInit /\ QueryInit /\ ConfigInit

SpecOccupied == InitOccupied /\ [][ChunkSeqNext]_vars
\* restoreVersion calls overlapping with createVersion and deleteAllVersions
\* calls on the same object; the object is rewritten between calls.
RestoreNext ==
  \/ \E f \in FileIds, b \in Contents : VersionQuiescent /\ OverwriteObject(f, b)
  \/ \E r \in VerReqs, f \in FileIds : CreateVersionStart(r, f)
  \/ \E r \in VerReqs, f \in FileIds : RestoreVersionStart(r, f, 1)
  \/ \E r \in VerReqs, f \in FileIds : DeleteAllVersionsStart(r, f)
  \/ \E r \in VerReqs : CreateVersionFind(r)
  \/ \E r \in VerReqs : CreateVersionCopy(r)
  \/ \E r \in VerReqs : CreateVersionStat(r)
  \/ \E r \in VerReqs : CreateVersionRow(r, "none", 1)
  \/ \E r \in VerReqs : RestoreVersionCopy(r)
  \/ \E r \in VerReqs : RestoreVersionStat(r)
  \/ \E r \in VerReqs : RestoreVersionUpdate(r)
  \/ \E r \in VerReqs : DeleteAllVersionsRm(r)
  \/ \E r \in VerReqs : DeleteAllVersionsRows(r)

SpecRestore == Init /\ [][RestoreNext]_vars
SpecPurge == InitVariants /\ [][PurgeNext]_vars
SpecCustom == Init /\ [][CustomNext]_vars
SpecCache == Init /\ [][CacheNext]_vars
SpecFeatures == InitFeatures /\ [][FeatureNext]_vars
SpecCompare == InitCompare /\ [][CompareNext]_vars
SpecSave == InitNoObject /\ [][SaveNext]_vars
SpecStore == InitWebhooks /\ [][StoreNext]_vars
SpecTriggers == InitWebhooks /\ [][TriggerNext]_vars
SpecImage == Init /\ [][ImageNext]_vars
SpecImageSeq == Init /\ [][ImageSeqNext]_vars
SpecChunk == Init /\ [][ChunkNext]_vars
SpecChunkSeq == Init /\ [][ChunkSeqNext]_vars
SpecVersion == Init /\ [][VersionNext]_vars
SpecVersionSeq == Init /\ [][VersionSeqNext]_vars
SpecWebhook == InitWebhooks /\ [][WebhookNext]_vars

(***************************************************************************)
(* Properties of the chunked-upload assembler                              *)
(***************************************************************************)
FinalizeDone(r) == creq[r].op = "finalize" /\ creq[r].pc = "done" /\ creq[r].status # 404
UploadOk(r) == creq[r].op = "upload" /\ creq[r].pc = "done" /\ creq[r].status = 200

\* slot[0] ++ slot[1] ++ ... ++ slot[n-1]
RECURSIVE ConcatSlots(_, _)
ConcatSlots(slots, n) ==
  IF n = 0 THEN <<>> ELSE ConcatSlots(slots, n - 1) \o slots[n - 1]

\* The finalize r is the only one that ever opened the target for writing.
OnlyWriter(r) ==
  \A q \in ChunkReqs :
     (q # r /\ creq[q].op = "finalize")
        => (creq[q].pc = "done" /\ creq[q].status \in {400, 404})

\* C1: finalizeChunkedUpload on a known session succeeds if and only if
\* chunksReceived = totalChunks at the time of the call, and fails with the
\* 400 IncompleteUpload error otherwise.
C1_FinalizeIffComplete ==
  \A r \in ChunkReqs :
     FinalizeDone(r) =>
        /\ (creq[r].seen = creq[r].seenTotal) <=> (creq[r].status = 201)
        /\ (creq[r].seen # creq[r].seenTotal) <=> (creq[r].status = 400)

\* C2: a successful finalize wrote slot[0] ++ ... ++ slot[n-1], the slots as
\* they were when it was called, whatever the order the chunks arrived in;
\* when no other finalize wrote to the target, these are the object's bytes.
C2_AssembledInIndexOrder ==
  \A r \in ChunkReqs :
     (FinalizeDone(r) /\ creq[r].status = 201 /\ ~creq[r].raced) =>
        /\ creq[r].out = ConcatSlots(creq[r].snap, creq[r].seenTotal)
        /\ OnlyWriter(r) => store[sessionObj[creq[r].sid].filePath] = creq[r].out

\* A two-chunk upload whose chunk 1 arrived before chunk 0, with different
\* bytes in the two slots, was assembled.
C2_Witness ==
  \E r, u \in ChunkReqs :
     /\ FinalizeDone(r) /\ creq[r].status = 201 /\ ~creq[r].raced /\ OnlyWriter(r)
     /\ creq[r].seenTotal = 2 /\ creq[r].snap[0] # creq[r].snap[1]
     /\ UploadOk(u) /\ creq[u].outOfOrder /\ u < r

\* C3: the received-count of a session is the number of uploadChunk calls on
\* it that completed, however their writes interleaved.
C3_CountEqualsCompletedCalls ==
  \A s \in SessionIds :
     sessionObj[s].chunksReceived =
        Cardinality({r \in ChunkReqs : UploadOk(r) /\ creq[r].sid = s})

\* Two uploadChunk calls on one session overlapped and both completed.
C3_Witness ==
  \E r, q \in ChunkReqs :
     /\ r # q /\ UploadOk(r) /\ UploadOk(q) /\ creq[r].sid = creq[q].sid
     /\ creq[q].conc
     /\ sessionObj[creq[r].sid].chunksReceived = 2

\* C4: a finalize and an uploadChunk of the same session are never in flight
\* at the same time.
C4_FinalizeExcludesChunkArrival ==
  \A rf, ru \in ChunkReqs :
     ~(FinalizeInFlight(rf) /\ UploadInFlight(ru) /\ creq[rf].sid = creq[ru].sid)

(***************************************************************************)
(* Properties of the version store                                         *)
(***************************************************************************)
\* The call r created a version of file f.
Created(r, f) == vreq[r].made /\ vreq[r].f = f
NoDeletion == \A r \in VerReqs : vreq[r].op \notin {"delete", "deleteAll"}
AssignedNumber(r) == vreq[r].pc \in {"cv_copy", "cv_stat", "cv_row"}

\* C5: with calls made one after the other and no deletion, the k-th version
\* created for an object carries the number k (1, 2, ..., k in creation order).
C5_NumbersCountFromOne ==
  \A f \in FileIds : \A r \in VerReqs :
     (NoDeletion /\ Created(r, f)) =>
        vreq[r].newNum = 1 + Cardinality({q \in VerReqs : q < r /\ Created(q, f)})

\* Three versions of one object were created in a row.
C5_Witness ==
  /\ NoDeletion
  /\ \A r \in 1..3 : Created(r, 1) /\ vreq[r].pc = "done"
  /\ {x.versionNumber : x \in RowsOf(1)} = 1..3

\* C6: a version number once assigned to a version of an object is never
\* assigned to a later version of it, also after deletions.
C6_NumberNeverReused ==
  \A f \in FileIds : \A r, q \in VerReqs :
     (r # q /\ Created(r, f) /\ Created(q, f)) => vreq[r].newNum # vreq[q].newNum

\* C7: two createVersion calls in flight on the same object never hold the
\* same newVersionNumber.
C7_DistinctNumbersInFlight ==
  \A r, q \in VerReqs :
     (r # q /\ AssignedNumber(r) /\ AssignedNumber(q) /\ vreq[r].f = vreq[q].f)
        => vreq[r].newNum # vreq[q].newNum

\* C8: the bytes in the slot of a version row are the bytes its checksum and
\* size were taken from when the row was created (the slot is absent only
\* while the version is being deleted).
C8_VersionImmutable ==
  \A x \in versionRows :
     LET bytes == versionDisk[x.fileId][x.versionNumber] IN
     bytes # NoFile => (MD5(bytes) = x.checksum /\ Len(bytes) = x.size)

\* C9: the step that completes a successful restoreVersion(f, v) leaves a new
\* version, numbered above all previous ones, that holds the bytes and the
\* checksum of the live object as it was just before the restore, and a live
\* object whose bytes, size and recorded checksum are those of version v.
C9_RestoreSnapshotsThenRestores ==
  [][\A r \in VerReqs :
       (vreq[r].op = "restore" /\ vreq[r].pc # "done"
          /\ vreq'[r].pc = "done" /\ vreq'[r].status = 200) =>
       LET f == vreq[r].f
           n == vreq[r].newNum IN
       /\ n > vreq[r].preMax
       /\ \E x \in versionRows' :
             /\ x.fileId = f /\ x.versionNumber = n
             /\ x.checksum = MD5(vreq[r].preLive) /\ x.size = Len(vreq[r].preLive)
       /\ versionDisk'[f][n] = vreq[r].preLive
       /\ \E y \in versionRows' :
             /\ y.fileId = f /\ y.versionNumber = vreq[r].v
             /\ live'[f] = versionDisk'[f][y.versionNumber]
             /\ fileRow'[f].size = y.size
             /\ fileRow'[f].checksum = y.checksum]_vars

\* A restore completed that changed the live object: the version restored
\* differs from the pre-restore content, which the new version holds.
C9_Witness ==
  \E r \in VerReqs :
     /\ vreq[r].op = "restore" /\ vreq[r].pc = "done" /\ vreq[r].status = 200
     /\ live[vreq[r].f] # vreq[r].preLive
     /\ versionDisk[vreq[r].f][vreq[r].newNum] = vreq[r].preLive
     /\ fileRow[vreq[r].f].checksum = MD5(live[vreq[r].f])

(***************************************************************************)
(* Properties of the webhook delivery subsystem                            *)
(***************************************************************************)
RecordsOf(j) == {k \in 1..Len(deliveries) : deliveries[k].job = j}

\* C10: a delivery job that the queue gave up on was attempted exactly 5
\* times, and each of these attempts left one delivery record with
\* success = false while the webhook exists.
C10_FiveAttemptsThenDropped ==
  \A j \in JobIds :
     jobs[j].state = "failed" =>
        /\ jobs[j].attemptsMade = 5
        /\ webhookRow[jobs[j].webhookId].exists =>
              /\ Cardinality(RecordsOf(j)) = 5
              /\ \A k \in RecordsOf(j) : ~deliveries[k].success

\* The jobs a step adds to the queue.
NewJobs == {j \in JobIds : jobs[j].state = "none" /\ jobs'[j].state # "none"}

Attempts == {k \in 1..Len(deliveries) : deliveries[k].asked}

\* C12: in every attempt the signature header is set iff the webhook has a
\* secret, and it is then the HMAC-SHA256, under that secret, of the very
\* string that went out as the body.
C12_SignatureOverBody ==
  \A k \in Attempts :
     LET d == deliveries[k] IN
     /\ (d.signature # NoSignature) <=> webhookRow[d.webhookId].secret
     /\ d.signature # NoSignature =>
           d.signature = HMACSHA256(SecretOf(d.webhookId), d.body)

\* One attempt went out signed and another one unsigned.
C12_Witness ==
  \E k1, k2 \in Attempts :
     /\ deliveries[k1].signature # NoSignature
     /\ deliveries[k2].signature = NoSignature

GetsDone(f, k) ==
  {r \in ImgReqs : ireq[r].op = "get" /\ ireq[r].pc = "done"
                     /\ ireq[r].f = f /\ ireq[r].key = k}
JobsDone(f, k) ==
  {r \in ImgReqs : ireq[r].op = "job" /\ ireq[r].pc = "done"
                     /\ ireq[r].f = f /\ ireq[r].key = k}

\* The worker has taken no job for variant k of file f.
NoJobRun(f, k) ==
  \A r \in ImgReqs : ireq[r].op = "job" => ~(ireq[r].f = f /\ ireq[r].key = k)

\* C15: any two getPresetVariant calls for the same file and preset, with
\* no worker run for that variant beside them, both succeed, return the
\* same row and the same bytes, and leave exactly one row for the pair.
C15_SamePresetSameResult ==
  \A f \in FileIds, k \in Presets :
     NoJobRun(f, k) =>
     \A r1, r2 \in GetsDone(f, k) :
        /\ ireq[r1].status = 200 /\ ireq[r2].status = 200
        /\ ireq[r1].rowId = ireq[r2].rowId
        /\ ireq[r1].buf = ireq[r2].buf
        /\ Cardinality(VariantRowsOf(f, k)) = 1

\* C16: after any number of createVariant runs for the same file and key,
\* made one after the other, there is one row for the key; every run
\* returned that row; its path is that of the key and its width and size
\* are those of the variant file one run writes.
C16_CreateVariantIdempotent ==
  \A f \in FileIds, k \in Presets :
     /\ Cardinality(VariantRowsOf(f, k)) <= 1
     /\ \A r \in GetsDone(f, k) \cup JobsDone(f, k) :
           /\ ireq[r].status = 200
           /\ \E x \in VariantRowsOf(f, k) : x.id = ireq[r].rowId
     /\ ImageQuiescent =>
           \A x \in VariantRowsOf(f, k) :
              /\ x.path = <<f, k>>
              /\ x.size = Len(variantDisk[f][k])
              /\ x.width = Len(variantDisk[f][k])
              /\ \E b \in Contents : variantDisk[f][k] = Render(b, k)

\* createVariant ran twice for the same key, in a getPresetVariant call and
\* then in a worker run, the second time after the original had changed.
C16_Witness ==
  \E r1, r2 \in ImgReqs :
     /\ r1 < r2 /\ r1 \in GetsDone(1, "small") /\ r2 \in JobsDone(1, "small")
     /\ ireq[r1].rowId = ireq[r2].rowId /\ ireq[r1].rowId # NoRow
     /\ variantDisk[1]["small"] = <<2, 1>>

\* C17: once a worker run and a getPresetVariant call for the same file and
\* preset have both finished, however their steps interleaved, and nothing
\* is in flight, there is exactly one row for the pair and its path holds
\* the complete variant of an original.
C17_RaceLeavesOneCompleteVariant ==
  \A f \in FileIds, k \in Presets :
     (ImageQuiescent /\ GetsDone(f, k) # {} /\ JobsDone(f, k) # {}) =>
        /\ Cardinality(VariantRowsOf(f, k)) = 1
        /\ \A x \in VariantRowsOf(f, k) : x.path = <<f, k>>
        /\ \E b \in Contents : variantDisk[f][k] = Render(b, k)

\* The call and the run did overlap: the call read the file while the run
\* had it cut to length 0.
C17_Witness ==
  /\ ImageQuiescent
  /\ \E r1 \in GetsDone(1, "small"), r2 \in JobsDone(1, "small") :
        /\ ireq[r1].buf = <<>> /\ ireq[r1].status = 200
        /\ ireq[r2].status = 200

(***************************************************************************)
(* Properties of the trigger paths                                         *)
(***************************************************************************)
CreateMade(r) == vreq[r].op = "create" /\ vreq[r].pc = "done" /\ vreq[r].made

\* C14: a failure of the subscription lookup or of an enqueue inside
\* triggerEvent, or of the lookup or an enqueue inside processImageVariants,
\* never reaches the caller: both calls return, and a createVersion call
\* whose trigger failed answers 200 and leaves its version row, as one whose
\* trigger succeeded does.
C14_TriggerFailureNotPropagated ==
  /\ trig.returned
  /\ piv.returned
  /\ \A r \in VerReqs :
        CreateMade(r) =>
          /\ vreq[r].status = 200
          /\ \E x \in versionRows :
                x.id = r /\ x.fileId = vreq[r].f /\ x.versionNumber = vreq[r].newNum

\* A createVersion call whose enqueue rejected and one whose subscription
\* lookup rejected have both answered, and an enqueue of preset jobs was cut
\* short by a rejected add.
C14_Witness ==
  /\ \E r \in VerReqs : CreateMade(r) /\ vreq[r].trigFault = "add"
  /\ \E r \in VerReqs : CreateMade(r) /\ vreq[r].trigFault = "lookup"
  /\ piv.fault = "add" /\ piv.added = 2

(***************************************************************************)
(* Properties of the content store                                         *)
(***************************************************************************)
\* A step in which an upload of object f was answered 201.
Uploads(f) ==
  /\ uploaded' = uploaded + 1
  /\ live'[f] # live[f] \/ renamed'[f] # renamed[f]

\* A step in which a delete of object f was answered 200.
Deletes(f) == deleted' = deleted + 1 /\ live[f] # NoFile /\ live'[f] = NoFile

\* C18: a successful upload of an image enqueues exactly one 'createVariant'
\* job for each of the presets thumbnail, small, medium and large of that
\* object.
C18_UploadEnqueuesPresetJobs ==
  [][\A f \in FileIds :
       Uploads(f) /\ IsImage(MimeType(f)) =>
         \A k \in Presets : imageQueue'[f][k] = imageQueue[f][k] + 1]_vars

\* C19: a successful upload enqueues a delivery job of file.created for every
\* active webhook subscribed to it, and a successful delete first stores the
\* content it removes as a new version of the object.
C19_MutationSnapshotsAndNotifies ==
  [][\A f \in FileIds :
       /\ Uploads(f) =>
            \A w \in Subscribers("file.created") :
              \E j \in NewJobs : jobs'[j].webhookId = w /\ jobs'[j].event = "file.created"
       /\ Deletes(f) =>
            \E x \in versionRows' \ versionRows :
              x.fileId = f /\ versionDisk'[f][x.versionNumber] = live[f]]_vars

\* C20: an object that was deleted has no version row, no version slot, no
\* variant row and no variant file left.
C20_NoOrphans ==
  \A f \in FileIds :
    live[f] = NoFile =>
      /\ RowsOf(f) = {}
      /\ \A v \in VersionNumbers : versionDisk[f][v] = NoFile
      /\ VariantRowsOf(f, "small") = {}
      /\ \A k \in Presets : variantDisk[f][k] = NoFile

(***************************************************************************)
(* Properties of saveFile                                                  *)
(***************************************************************************)
SaveDone(r) == sreq[r].pc = "done" /\ sreq[r].status = 201

\* The names under which a finished save returned its object.
SavedNames == {sreq[r].path : r \in {q \in SaveReqs : SaveDone(q)}}

\* C21: saveFile never overwrites an object: the bytes under a name that a
\* save has returned never change afterwards, no two saves return the same
\* path, and a save whose name was taken returns the name with a suffix
\* before its extension.
C21_SaveNeverOverwrites ==
  [][/\ \A n \in SavedNames : DiskAt(n)' = DiskAt(n)
     /\ \A r \in SaveReqs :
          SaveDone(r)' =>
            /\ DiskAt(sreq[r].path)' = sreq'[r].buf
            /\ \A q \in SaveReqs : (q # r /\ SaveDone(q)') => sreq'[q].path # sreq'[r].path
            /\ Extname(sreq'[r].path) = Extname(ObjectName)]_vars

(***************************************************************************)
(* Properties of getFile                                                   *)
(***************************************************************************)
\* The finished getFile call asked for 'bytes=<start>-<end>'.
AskedClosed(start, end) == fileCall.pc = "done" /\ fileCall.header = ClosedRange(start, end)

\* C22: for an object of S bytes and a request 'bytes=start-end', the answer
\* is 416 when start >= S or end >= S; otherwise it is 206 with
\* Content-Range 'bytes start-end/S' and a body of exactly end - start + 1
\* bytes, the bytes start..end of the object.
C22_RangeExact ==
  \A start \in Offsets, end \in Offsets :
     AskedClosed(start, end) =>
        LET S == Len(fileCall.object) IN
        IF start >= S \/ end >= S THEN fileCall.status = 416
        ELSE /\ fileCall.status = 206
             /\ fileCall.contentRange = ContentRange(start, end, S)
             /\ ~fileCall.streamError
             /\ Len(fileCall.body) = end - start + 1
             /\ fileCall.body = SubSeq(fileCall.object, start + 1, end + 1)

(***************************************************************************)
(* Properties of the chunk slots and of the session store                  *)
(***************************************************************************)
\* The request r moves from one of the positions in from to position to.
Moves(r, from, to) == creq[r].pc \in from /\ creq'[r].pc = to

\* C23: an uploadChunk call on a known session is accepted whatever its
\* index and whether or not the index was received before; its write puts
\* its bytes in the slot of its index and leaves every other slot as it
\* was, the bytes are there when the call answers 200, and nothing but a
\* chunk write or the assembly of a finalize changes a slot.
C23_LastWriteWins ==
  [][/\ \A r \in ChunkReqs :
          (creq[r].pc = "idle" /\ creq'[r].op = "upload") =>
             IF creq'[r].sid \in chunkUploadSessions
             THEN creq'[r].pc = "u_write" ELSE creq'[r].status = 404
     /\ \A r \in ChunkReqs :
          (creq[r].op = "upload" /\ Moves(r, {"u_write"}, "u_count")) =>
             slot' = [slot EXCEPT ![creq[r].sid][creq[r].idx] = creq[r].buf]
     /\ \A r \in ChunkReqs :
          (creq[r].op = "upload" /\ Moves(r, {"u_write", "u_count"}, "done")) =>
             /\ creq'[r].status = 200
             /\ slot'[creq[r].sid][creq[r].idx] = creq[r].buf
     /\ slot' # slot =>
          \E r \in ChunkReqs :
             \/ creq[r].op = "upload" /\ Moves(r, {"u_write"}, "u_count")
             \/ creq[r].op = "finalize" /\ creq[r].pc \in {"f_write", "f_close"}
                                        /\ creq'[r].pc # creq[r].pc]_vars

\* Index 1 arrived before index 0, and index 0 was then sent again with
\* other bytes: three calls were counted and the slots hold the last bytes.
C23_Witness ==
  /\ sessionObj[1].chunksReceived = 3
  /\ \A r \in 1..3 : UploadOk(r)
  /\ \E r \in 1..3 : creq[r].outOfOrder
  /\ slot[1][0] = <<2, 1>> /\ slot[1][1] = <<1>>

\* The session id s is unknown: it was never initialised.
NeverInitialised(s) == ~sessionObj[s].created

\* A finalize of session s has answered 201.
Finalized(s) ==
  \E q \in ChunkReqs : FinalizeDone(q) /\ creq[q].status = 201 /\ creq[q].sid = s

\* C24: a session id that was never initialised, or whose finalize has
\* succeeded, is not in the session store, so that the lookup of the next
\* call made for it fails; an uploadChunk or finalize call made for such an
\* id answers 404 at once and changes no session, no scratch directory, no
\* chunk slot and no stored object.
C24_UnknownSessionIs404 ==
  [][/\ \A s \in SessionIds :
          (NeverInitialised(s)' \/ Finalized(s)') => s \notin chunkUploadSessions'
     /\ \A r \in ChunkReqs :
          (creq[r].pc = "idle" /\ creq'[r].pc # "idle"
             /\ (NeverInitialised(creq'[r].sid) \/ Finalized(creq'[r].sid))) =>
          /\ creq'[r].pc = "done" /\ creq'[r].status = 404
          /\ UNCHANGED <<chunkUploadSessions, sessionObj, tmpDir, slot, store>>]_vars

\* C25: a finalize that answered 201 has removed the scratch directory with
\* its slots and the session from the session store, and a finalize that
\* failed has written no byte at the target path (init and uploadChunk
\* never touch it).
C25_OnlySuccessfulFinalizeCommits ==
  \A r \in ChunkReqs :
     (creq[r].op = "finalize" /\ creq[r].pc = "done") =>
        IF creq[r].status = 201
        THEN /\ ~tmpDir[creq[r].sid]
             /\ creq[r].sid \notin chunkUploadSessions
             /\ \A i \in ChunkIdx : slot[creq[r].sid][i] = NoFile
        ELSE creq[r].out = <<>>

(***************************************************************************)
(* Properties of compareVersions                                           *)
(***************************************************************************)
\* The last compareVersions call compared two versions that exist.
Compared == cmpCall.status # 0 /\ VersionRow(1, cmpCall.a) # {} /\ VersionRow(1, cmpCall.b) # {}

\* The stored checksum of version n of the object.
ChecksumOf(n) == (CHOOSE x \in VersionRow(1, n) : TRUE).checksum

C27_ByteScan ==
  Compared =>
     LET ca == ChecksumOf(cmpCall.a)
         cb == ChecksumOf(cmpCall.b)
         A == versionDisk[1][cmpCall.a]
         B == versionDisk[1][cmpCall.b] IN
     /\ (ca # NoChecksum /\ cb # NoChecksum /\ ca = cb) =>
           cmpCall.status = 200 /\ cmpCall.differentBytes = 0 /\ ~cmpCall.readBytes
     /\ ca # cb =>
           /\ cmpCall.status = 200 /\ cmpCall.readBytes
           /\ cmpCall.totalBytes = Max(Len(A), Len(B))
           /\ cmpCall.differentBytes =
                 Cardinality({i \in 1..Max(Len(A), Len(B)) :
                                 i > Len(A) \/ i > Len(B) \/ A[i] # B[i]})

\* Versions of 1 and 2 bytes that differ everywhere were compared: 2 of 2
\* bytes differ.
C27_Witness ==
  /\ Compared /\ cmpCall.a = 1 /\ cmpCall.b = 2
  /\ versionDisk[1][1] = <<1>> /\ versionDisk[1][2] = <<2, 1>>
  /\ ChecksumOf(1) # NoChecksum /\ ChecksumOf(2) # NoChecksum
  /\ cmpCall.differentBytes = 2 /\ cmpCall.totalBytes = 2

(***************************************************************************)
(* Properties of the guards of the versioning service                      *)
(***************************************************************************)
VersionStoreUnchanged == UNCHANGED <<live, fileRow, versionDisk, versionRows>>
NoSuchVersion(f, v) == ~\E x \in versionRows : x.fileId = f /\ x.versionNumber = v
AddressesVersion(q) == q.op \in {"get", "restore", "delete"}

\* What a step of the call q of a version operation, which was p before the
\* step, has to look like when the call cannot be served.
RejectedStep(p, q) ==
  /\ ~versioning => q.pc = "done" /\ q.status = 400 /\ VersionStoreUnchanged
  /\ versioning /\ ~FileFound(q.f) =>
        /\ q.pc \in {"cv_find", "done"}
        /\ q.pc = "done" => q.status = 404
        /\ VersionStoreUnchanged
  /\ versioning /\ p.pc = "idle" /\ AddressesVersion(q) /\ NoSuchVersion(q.f, q.v) =>
        q.pc = "done" /\ q.status = 404 /\ VersionStoreUnchanged

RejectedCompare(c) ==
  /\ ~versioning => c.status = 400 /\ VersionStoreUnchanged
  /\ versioning /\ (~FileFound(c.f) \/ NoSuchVersion(c.f, c.a) \/ NoSuchVersion(c.f, c.b)) =>
        c.status = 404 /\ VersionStoreUnchanged

\* C28: every version operation (createVersion, getVersions, getVersion,
\* restoreVersion, deleteVersion, deleteAllVersions, compareVersions) fails
\* with 400 when versioning is turned off and with 404 when the addressed
\* object or version does not exist, and in both cases no version row, version
\* slot or live object is changed.
C28_VersionOperationsRejected ==
  [][/\ \A r \in VerReqs : vreq'[r] # vreq[r] => RejectedStep(vreq[r], vreq'[r])
     /\ cmpCall' # cmpCall => RejectedCompare(cmpCall')]_vars

(***************************************************************************)
(* Properties of getPresetVariant as a cache                               *)
(***************************************************************************)
VariantBytes(q) == variantDisk[q.f][q.key]
Getting(r, at) == ireq[r].op = "get" /\ ireq[r].pc = at

\* C29: getPresetVariant is a cache.  When the row of (fileId, preset) exists
\* and its file can be read, the call returns those bytes and regenerates
\* nothing; when the row exists but its file is missing, or there is no row,
\* the call runs createVariant, and when it returns the row exists, its file
\* can be read and the call hands out the bytes of that file.
C29_PresetVariantIsCache ==
  [][\A r \in ImgReqs :
       /\ ireq[r].pc = "idle" /\ ireq'[r].op = "get" =>
             /\ UNCHANGED <<variantDisk, variantRows>>
             /\ ireq'[r].pc = IF FindVariant(ireq'[r].f, ireq'[r].key) # NoRow
                              THEN "g_read" ELSE "cv_read"
       /\ Getting(r, "g_read") /\ VariantBytes(ireq[r]) # NoFile =>
             /\ UNCHANGED <<variantDisk, variantRows>>
             /\ ireq'[r].pc = "done" /\ ireq'[r].status = 200
             /\ ireq'[r].buf = VariantBytes(ireq[r])
       /\ Getting(r, "g_read") /\ VariantBytes(ireq[r]) = NoFile =>
             /\ UNCHANGED <<variantDisk, variantRows>>
             /\ ireq'[r].pc = "cv_read"
       /\ ireq[r].op = "get" /\ ireq[r].pc \notin {"g_read", "done"} /\ ireq'[r].pc = "done" =>
             /\ ireq'[r].status = 200
             /\ FindVariant(ireq[r].f, ireq[r].key)' # NoRow
             /\ VariantBytes(ireq[r])' = Render(live[ireq[r].f], ireq[r].key)
             /\ ireq'[r].buf = VariantBytes(ireq[r])']_vars

\* A call that found the row of an earlier call without its file has made
\* the file again and updated that row.
C29_Witness ==
  \E r \in ImgReqs :
     /\ Getting(r, "g_read2")
     /\ ireq[r].rowId \notin {NoRow, r}
     /\ FindVariant(ireq[r].f, ireq[r].key) = ireq[r].rowId
     /\ VariantBytes(ireq[r]) = Render(live[ireq[r].f], ireq[r].key)
     /\ dav.pc = "idle"

(***************************************************************************)
(* Properties of custom variants                                           *)
(***************************************************************************)
NoDimensions(q) == q.op = "custom" /\ q.options = NoOptions

\* C30: a custom-variant request with neither width nor height is answered
\* 400 before any generation is attempted: no variant file is written, no
\* ImageVariant row is created or updated and no variant key is made.
C30_NoDimensionsRejected ==
  [][\A r \in ImgReqs :
       ireq'[r] # ireq[r] /\ NoDimensions(ireq'[r]) =>
          /\ ireq'[r].pc = "done"
          /\ ireq'[r].status = 400
          /\ ireq'[r].key = NoKey
          /\ UNCHANGED <<variantDisk, variantRows>>]_vars

\* A request without width and height was turned down after another one,
\* with a width, had its variant made.
C30_Witness ==
  \E r \in ImgReqs, q \in ImgReqs :
     /\ NoDimensions(ireq[r]) /\ ireq[r].pc = "done" /\ ireq[r].status = 400
     /\ ireq[q].op = "custom" /\ ireq[q].pc = "done" /\ ireq[q].status = 200
     /\ ireq[q].key \in CustomKeys
     /\ variantDisk[ireq[q].f][ireq[q].key] # NoFile
     /\ \A k \in CustomKeys \ {ireq[q].key} : variantDisk[ireq[q].f][k] = NoFile
     /\ Cardinality(variantRows) = 1

(***************************************************************************)
(* Properties of deleteAllVariants                                         *)
(***************************************************************************)
VariantsOf(f) == {x \in variantRows : x.fileId = f}
OthersUntouched(f) ==
  \A g \in VariantOwners \ {f} :
     variantDisk'[g] = variantDisk[g] /\ VariantsOf(g)' = VariantsOf(g)

\* C31: when deleteAllVariants(fileId) returns, no file is left under the
\* variant directory of the object and no ImageVariant row of the object
\* remains; the variants of other objects are as they were; a call for an
\* object without variant files runs to its end like any other.
C31_DeleteAllVariantsRemovesAll ==
  [][/\ dav.pc = "idle" /\ dav'.pc # "idle" =>
          dav'.pc = "rows" /\ OthersUntouched(dav'.f)
     /\ dav.pc = "rows" /\ dav'.pc = "idle" =>
          /\ \A k \in VariantKeys : variantDisk'[dav.f][k] = NoFile
          /\ {x \in variantRows' : x.fileId = dav.f} = {}
          /\ OthersUntouched(dav.f)]_vars

(***************************************************************************)
(* Properties of the delivery log and of the delivery worker               *)
(***************************************************************************)
\* C32: the WebhookDelivery log is append-only: whatever webhook operation
\* runs (triggerEvent, a delivery attempt, updateWebhook, deleteWebhook), the
\* rows that were there stay, unchanged and in place.
C32_DeliveryLogAppendOnly ==
  [][/\ Len(deliveries') >= Len(deliveries)
     /\ \A i \in 1..Len(deliveries) : deliveries'[i] = deliveries[i]]_vars

(***************************************************************************)
(* Properties of the chunk counter and of finalize                         *)
(***************************************************************************)
\* The indices below totalChunks whose chunk file is on disk.
WrittenIndices(s) ==
  {i \in ChunkIdx : i < sessionObj[s].totalChunks /\ slot[s][i] # NoFile}

\* C33: in a session nobody is working on, 0 <= chunksReceived <= totalChunks,
\* and chunksReceived is the number of distinct indices in 0..totalChunks-1
\* whose chunk slot has been written.
C33_CounterCountsDistinctSlots ==
  ChunkQuiescent =>
    \A s \in chunkUploadSessions :
       /\ 0 <= sessionObj[s].chunksReceived
       /\ sessionObj[s].chunksReceived <= sessionObj[s].totalChunks
       /\ sessionObj[s].chunksReceived = Cardinality(WrittenIndices(s))

\* Every index below totalChunks had its chunk on disk when finalize r was
\* called.
CalledWhenAllWritten(r) ==
  /\ creq[r].op = "finalize" /\ creq[r].pc = "done" /\ creq[r].status # 404
  /\ \A i \in ChunkIdx : i < creq[r].seenTotal => creq[r].snap[i] # NoFile

\* C34: a finalizeChunkedUpload call on a session in which every index
\* 0..totalChunks-1 has been uploaded at least once, in whatever order and
\* with whatever resubmissions, is not rejected: it assembles and answers 201.
C34_CompleteSessionFinalizes ==
  \A r \in ChunkReqs : CalledWhenAllWritten(r) => creq[r].status = 201

\* The step in which finalize r gives up with 400 or 500.
FinalizeFails(r) ==
  /\ creq[r].pc # "done" /\ creq'[r].pc = "done"
  /\ creq'[r].op = "finalize" /\ creq'[r].status \in {400, 500}

\* C35: when a finalizeChunkedUpload call fails, with 400 or with a storage
\* error during assembly, the session is still in the session store, its
\* chunksReceived is what it was and every chunk slot holds what it held when
\* the call was made.
C35_FailedFinalizeKeepsSession ==
  [][\A r \in ChunkReqs :
       FinalizeFails(r) =>
          /\ creq'[r].sid \in chunkUploadSessions'
          /\ sessionObj'[creq'[r].sid].chunksReceived = creq'[r].seen
          /\ slot'[creq'[r].sid] = creq'[r].snap]_vars

\* Two finalize calls of one session, each made while every chunk of the
\* session was on disk, both over, and no uploadChunk wrote meanwhile.
FinalizedTwice(r, q) ==
  /\ r # q /\ creq[r].sid = creq[q].sid
  /\ CalledWhenAllWritten(r) /\ CalledWhenAllWritten(q)
  /\ ~creq[r].raced /\ ~creq[q].raced

\* C36: of two concurrent finalizeChunkedUpload calls on the same complete
\* session at most one answers 201; the other fails and has written nothing
\* to the target path; the object at the target is the in-order
\* concatenation of the chunks.
C36_OneFinalizeCommits ==
  \A r, q \in ChunkReqs :
     FinalizedTwice(r, q) =>
        /\ ~(creq[r].status = 201 /\ creq[q].status = 201)
        /\ creq[r].status = 201 =>
              /\ creq[q].out = <<>>
              /\ store[sessionObj[creq[r].sid].filePath]
                    = ConcatSlots(creq[r].snap, creq[r].seenTotal)

\* C37: a finalize that succeeds leaves the bytes of an object that was at
\* the target path before it as they were (the assembled object goes under
\* another name, or the call fails).
C37_FinalizeKeepsExistingObject ==
  \A r \in ChunkReqs :
     (creq[r].op = "finalize" /\ creq[r].pc = "done" /\ creq[r].status = 201)
       => store[sessionObj[creq[r].sid].filePath] = ExistingObject

(***************************************************************************)
(* Properties of the version store at rest                                 *)
(***************************************************************************)
\* The version numbers of the slots v<n> on disk, and of the FileVersion rows.
SlotsOnDisk(f) == {n \in VersionNumbers : versionDisk[f][n] # NoFile}
RowNumbers(f) == {x.versionNumber : x \in RowsOf(f)}

\* C38: when no version operation is in progress, also after one that failed
\* part-way, every FileVersion row has its slot on disk and every slot has a
\* row.
C38_SlotsMatchRows ==
  VersionQuiescent => \A f \in FileIds : SlotsOnDisk(f) = RowNumbers(f)

\* A step of the restoreVersion call r.
RestoreStep(r) == vreq'[r] # vreq[r] /\ vreq'[r].op = "restore"
\* The call r ends in this step with an error.
RestoreFails(r) == RestoreStep(r) /\ vreq'[r].pc = "done" /\ vreq'[r].status # 200

\* C39: a restoreVersion that fails has not touched the live object's bytes,
\* size or checksum, and a restoreVersion writes them only after its snapshot
\* of the current state has been created.
C39_FailedRestoreKeepsLive ==
  [][\A r \in VerReqs :
       /\ RestoreStep(r) /\ (live' # live \/ fileRow' # fileRow)
            => vreq[r].made /\ vreq[r].pc \in {"rs_copy", "rs_update"}
       /\ RestoreFails(r)
            => /\ live' = live /\ fileRow' = fileRow
               /\ vreq[r].pc \notin {"rs_stat", "rs_update"}]_vars

\* A restoreVersion whose snapshot failed has answered 500, and the live
\* object is what it was when the call was made.
C39_Witness ==
  \E r \in VerReqs :
     /\ vreq[r].op = "restore" /\ vreq[r].pc = "done" /\ vreq[r].status = 500
     /\ ~vreq[r].made
     /\ live[vreq[r].f] = vreq[r].preLive

(***************************************************************************)
(* Properties of the worker's subscription check                           *)
(***************************************************************************)
\* The worker runs job j in this step, and the subscription of the job is
\* deleted or inactive.
ProcessedWhileOff(j) ==
  /\ jobs[j].state = "waiting" /\ jobs'[j] # jobs[j]
  /\ ~(webhookRow[jobs[j].webhookId].exists /\ webhookRow[jobs[j].webhookId].active)

\* C40: a job processed while its subscription is inactive or deleted, even
\* one enqueued while it was active, fails its attempt and no HTTP POST is
\* sent for it.
C40_NoPostWhenInactiveOrDeleted ==
  [][\A j \in JobIds : ProcessedWhileOff(j) =>
        /\ jobs'[j].attemptsMade = jobs[j].attemptsMade + 1
        /\ jobs'[j].state # "completed"
        /\ \A i \in 1..Len(deliveries') : i > Len(deliveries) => ~deliveries'[i].asked]_vars

\* A job enqueued for an active subscription was processed after the
\* subscription was switched off: its attempt failed and the row it left
\* records that the endpoint was not asked.
C40_Witness ==
  \E i \in 1..Len(deliveries) :
     /\ ~deliveries[i].asked
     /\ jobs[deliveries[i].job].state = "failed"
     /\ jobs[deliveries[i].job].attemptsMade >= 1

====
